---- MODULE Spec2Model ----
(***************************************************************************)
(* Model of the Spectra Python client's session and wire-protocol runtime: *)
(* Session (_session.py), Transport (_transport.py), the animation helpers *)
(* (_animation.py) and the header codec (_codec.py).                       *)
(*                                                                         *)
(* Spec      the Session shared by a main thread and a live thread, with   *)
(*           the backend as the peer on the other end of the socket.       *)
(* SpecRecv  Transport.recv reading one frame from a byte stream that the  *)
(*           socket delivers in chunks of any size.                        *)
(* SpecTransport  one Transport used call after call (send, recv) while    *)
(*           the socket fails or the peer goes away.                       *)
(* SpecConnect    Session.__init__: its attempts, ensure_backend and the   *)
(*           HELLO handshake of _connect.                                  *)
(* SpecLive, FairSpecLive  show() on the main thread beside a thread       *)
(*           started by live().                                            *)
(* SpecBlob, FairSpecBlob  a BlobStore (_blob.py) called by two threads    *)
(*           while the clock advances.                                     *)
(* SpecChunk Series.set_data, append and _send_chunked (_series.py), with  *)
(*           the requests of another thread.                               *)
(* SpecEvents     Session._handle_event, BackendAnimator.start and stop,   *)
(*           Figure.show (_figure.py), Session.close.                      *)
(* SpecPacer FramePacer.pace and ipc_sleep against a clock.                *)
(* SpecReconnect  Session.reconnect and the REQ_RECONNECT it sends.        *)
(* SpecLoop, FairSpecLoop  the threads of live() (_easy.py), stop_live and *)
(*           shutdown.                                                     *)
(* SpecHeader     encode_header and decode_header, byte by byte.           *)
(* SpecDecoder    PayloadDecoder.next over a byte string.                  *)
(* SpecWait  Session._request reading messages until its response.         *)
(***************************************************************************)
EXTENDS Integers, Sequences, FiniteSets, TLC

(* ------------------------------ bounds --------------------------------- *)

\* top-level Session operations the two threads start in a run
MaxOps == 2
\* events the peer pushes
MaxEvents == 2
\* nesting of Session calls on one thread's stack (a callback calling back)
MaxDepth == 2

Threads == {"main", "worker"}
NoThread == "none"
\* the figure the modelled program works with, and its animator
FigIds == {1}
BlobNames == {1}

VARIABLES
    transport,        \* Session._transport: 0 is None, else the Transport object
    sockOpen,         \* per Transport object: _sock is not None (is_open)
    session_id,       \* Session._session_id
    next_request_id,  \* Session._next_request_id
    lock,             \* Session._lock: the thread holding it, or NoThread
    figures,          \* Session._figures: figure id -> [visible, shown_once]
    animators,        \* Session._animators (by figure id)
    anim_running,     \* BackendAnimator._running (by figure id)
    blobs,            \* BlobStore._blobs (names tracked)
    closed,           \* Session._closed
    wire,             \* per Transport: frames the peer has written, unread
    pending,          \* per Transport: frames the client wrote, unanswered
    peerClosed,       \* per Transport: the peer has closed its end
    wireIds,          \* request ids put on the wire by _request, in order
    frames,           \* per thread: its call stack of Session operations
    last,             \* per thread: how its most recent operation ended
    ops,              \* operations started so far
    events,           \* unsolicited frames pushed so far
    live_thread_count, \* Session._live_thread_count
    rv,               \* Transport.recv on a byte stream (SpecRecv)
    tport,            \* a Transport used call after call (SpecTransport)
    boot,             \* Session.__init__ under way (SpecConnect)
    live,             \* the thread started by live() (SpecLive)
    store,            \* a BlobStore used by several threads (SpecBlob)
    chunked,          \* Series.set_data or append under way (SpecChunk)
    disp,             \* events dispatched to figures and animators (SpecEvents)
    pacer,            \* a FramePacer in an animation loop (SpecPacer)
    rc,               \* Session.reconnect under way (SpecReconnect)
    loop,             \* the threads of live() and shutdown() (SpecLoop)
    codec,            \* a header or a TLV payload in the codec (SpecHeader,
                      \* SpecDecoder)
    rq                \* a _request waiting for its response (SpecWait)

\* the Session's data, the connection's two directions, the run's budgets
sess == <<session_id, figures, animators, anim_running, blobs, closed,
          live_thread_count>>
net == <<wire, pending, peerClosed>>
\* the objects that only the specifications of one subsystem follow
aux == <<disp, pacer, rc, loop, codec, rq>>
sub == <<tport, boot, live, store, chunked, aux>>
ctl == <<ops, events, rv, sub>>
vars == <<transport, sockOpen, next_request_id, lock, wireIds, frames, last,
          sess, net, ctl>>

(* ----------------------------- messages -------------------------------- *)

\* A frame as Transport.recv returns it: header type and request_id, the
\* request id embedded in the payload (TAG_REQUEST_ID, 0 when absent) and the
\* figure id or blob name an event carries.
Msg(type, request_id, rid, fig) ==
    [type |-> type, request_id |-> request_id, rid |-> rid, fig |-> fig]
NoMsg == Msg("none", 0, 0, 0)
\* stream conditions: clean close, close in mid-message, malformed frame
EndOfStream == Msg("EOF", 0, 0, 0)
Truncated == Msg("TRUNC", 0, 0, 0)
BadFrame == Msg("BAD", 0, 0, 0)

EventTypes == {"EVT_WINDOW_CLOSED", "ANIM_TICK", "BLOB_RELEASE"}

\* the session id the backend hands out on a connection
WelcomeSid(tr) == 10 + tr

(* --------------------------- call stacks ------------------------------- *)

\* One call of a Session operation on a thread's stack: the operation, where
\* it stands, what it was called for, its request id, the Transport it
\* reads from, the message in hand, the messages recv has returned to it as
\* events and the messages it has passed to _handle_event.
Frame(op, pc, kind) ==
    [op |-> op, pc |-> pc, kind |-> kind, req_id |-> 0, tr |-> 0,
     msg |-> NoMsg, read |-> <<>>, handled |-> <<>>]

Top(t) == frames[t][Len(frames[t])]
Idle(t) == frames[t] = <<>>
At(t, op, pc) == ~Idle(t) /\ Top(t).op = op /\ Top(t).pc = pc
SetTop(t, f) == [frames EXCEPT ![t] = [@ EXCEPT ![Len(@)] = f]]
IsOpen(tr) == IF tr = 0 THEN FALSE ELSE sockOpen[tr]

\* a _request frame is on the stack of t
ViaRequest(t) == \E i \in 1..Len(frames[t]) : frames[t][i].op = "request"

\* the pc a caller continues at once _handle_event has returned: _request
\* goes straight back into self._transport.recv(), the drains to their loops
AfterDispatch(f) ==
    CASE f.op = "request" -> "req_in_recv"
      [] f.op = "show" -> "show_loop"
      [] OTHER -> "sleep_loop"

\* frame f calling self._transport.recv(): the Transport it reads from is
\* whatever self._transport holds at the call (0: None)
InRecv(f, pcIn) == [f EXCEPT !.pc = pcIn, !.tr = transport]

\* frame f of a caller of _handle_event, once the dispatch has returned
Resume(f) ==
    IF f.op = "request" THEN InRecv(f, AfterDispatch(f))
    ELSE [f EXCEPT !.pc = AfterDispatch(f)]

(* ------------------------ Session._request ----------------------------- *)

\* a counter that is read without being incremented
NextReqIdStale(n) == n

\* _next_req_id_unlocked: the id after counter value n
NextReqId(n) == n + 1

\* a lock that an exit path leaves as it is
LockKept(t) == lock

\* The lock once an operation of thread t has ended, by return or by raise:
\* `with self._lock` and try/finally release it on every exit path.
LockOnExit(t) == IF lock = t THEN NoThread ELSE lock

\* a raise path that closes the transport it read from
SockClosedOnRaise(exc, tr) == [sockOpen EXCEPT ![tr] = FALSE]

\* Transport._sock of every transport after _request raised exc while reading
\* from transport tr: no raise path of _request or Transport.recv closes it.
SockOnRaise(exc, tr) == sockOpen

\* rules that look at the header's request id first
ClassifyHeaderFirst(msg, req_id) ==
    IF msg.request_id = req_id THEN "return"
    ELSE IF msg.type = "RESP_ERR" /\ (msg.rid = req_id \/ msg.rid = 0)
    THEN "BackendError"
    ELSE IF msg.type = "RESP_OK" /\ msg.rid = req_id THEN "return"
    ELSE "event"

\* What _request does with a received message while waiting for req_id:
\* the first rule that applies.
Classify(msg, req_id) ==
    IF msg.type = "RESP_ERR" /\ (msg.rid = req_id \/ msg.rid = 0)
    THEN "BackendError"
    ELSE IF msg.request_id = req_id THEN "return"
    ELSE IF msg.type = "RESP_OK" /\ msg.rid = req_id THEN "return"
    ELSE "event"

\* Transport.recv on the head of the stream, frame by frame: None on a clean
\* close, ConnectionError on a close in mid-message, ProtocolError on a
\* malformed frame, else the message.
RecvOutcome(item) ==
    CASE item.type = "EOF" -> "None"
      [] item.type = "TRUNC" -> "ConnectionError"
      [] item.type = "BAD" -> "ProtocolError"
      [] OTHER -> "msg"

\* the stream after recv has read its head
WireAfterRecv(w) ==
    CASE w[1].type = "EOF" -> w
      [] w[1].type \in {"TRUNC", "BAD"} -> <<EndOfStream>> \o Tail(w)
      [] OTHER -> Tail(w)

\* the record kept of an operation that has ended: the operation, how it
\* ended ("ok" or the exception), whether the end came out of a _request call,
\* and for a _request its id and the message it returned
Ended(op, res, via, req_id, msg) ==
    [op |-> op, res |-> res, via |-> via, req_id |-> req_id, msg |-> msg]

\* An exception leaves the innermost call of t and unwinds the whole stack of
\* t: nothing on these stacks catches it.
RaiseIn(t, exc, via) ==
    /\ frames' = [frames EXCEPT ![t] = <<>>]
    /\ lock' = LockOnExit(t)
    /\ last' = [last EXCEPT ![t] =
                  Ended(frames[t][1].op, exc, via,
                        IF Top(t).op = "request" THEN Top(t).req_id ELSE 0,
                        NoMsg)]
Raise(t, exc) == RaiseIn(t, exc, ViaRequest(t))

\* what the caller of _request does with the response: reconnect clears
\* _closed, the other callers modelled change nothing of the Session
ClosedAfter(kind) == IF kind = "reconnect" THEN FALSE ELSE closed

\* _request, on top of the stack of t, returns msg to its caller
Return(t, msg) ==
    LET f == Top(t)
        n == Len(frames[t])
    IN  /\ lock' = LockOnExit(t)
        /\ last' = [last EXCEPT ![t] = Ended(f.op, "ok", TRUE, f.req_id, msg)]
        /\ closed' = ClosedAfter(f.kind)
        /\ IF n = 1
           THEN frames' = [frames EXCEPT ![t] = <<>>]
           ELSE \* back in the callback, which returns to _handle_event
                frames' = [frames EXCEPT ![t] =
                             [i \in 1..(n - 1) |->
                                IF i = n - 1 THEN Resume(frames[t][i])
                                ELSE frames[t][i]]]

\* the run may start another operation
Budget == ops < MaxOps

\* the entry check of _request
NotConnected == IF transport = 0 THEN TRUE ELSE ~sockOpen[transport]

\* a thread calls a method that is one _request (list_figures, set_xlim, ...):
\* the entry check raises, or the call goes on to take the lock
CallRequest(t) ==
    /\ Idle(t)
    /\ Budget
    /\ ops' = ops + 1
    /\ IF NotConnected
       THEN /\ frames' = frames
            /\ last' = [last EXCEPT ![t] =
                          Ended("request", "ConnectionError", TRUE, 0, NoMsg)]
       ELSE /\ frames' = [frames EXCEPT ![t] =
                            <<Frame("request", "req_lock", "list_figures")>>]
            /\ last' = last
    /\ UNCHANGED <<transport, sockOpen, next_request_id, lock, wireIds, sess,
                   net, events, rv, sub>>

\* the stream and the unanswered frames of a transport whose socket the
\* client has closed: the kernel drops them
Dropped(q, tr) == [q EXCEPT ![tr] = <<>>]

\* with self._lock: req_id = self._next_req_id_unlocked(); send; the first
\* self._transport.recv() is entered. The thread blocks on the lock before
\* and in recv after, and runs from the one to the other.
ReqLock(t) ==
    /\ At(t, "request", "req_lock")
    /\ lock = NoThread
    /\ next_request_id' = NextReqId(next_request_id)
    /\ LET id == next_request_id'
           f == [Top(t) EXCEPT !.req_id = id]
       IN  \/ \* self._transport is None by now
              /\ transport = 0
              /\ frames' = [frames EXCEPT ![t] = <<>>]
              /\ last' = [last EXCEPT ![t] =
                            Ended(frames[t][1].op, "AttributeError", TRUE, id, NoMsg)]
              /\ UNCHANGED <<lock, sockOpen, wire, pending, wireIds>>
           \/ \* Transport.send finds _sock None
              /\ transport # 0
              /\ ~sockOpen[transport]
              /\ frames' = [frames EXCEPT ![t] = <<>>]
              /\ last' = [last EXCEPT ![t] =
                            Ended(frames[t][1].op, "ConnectionError", TRUE, id, NoMsg)]
              /\ UNCHANGED <<lock, sockOpen, wire, pending, wireIds>>
           \/ \* OSError from the socket: send closes the transport
              /\ IsOpen(transport) /\ peerClosed[transport]
              /\ sockOpen' = [sockOpen EXCEPT ![transport] = FALSE]
              /\ wire' = Dropped(wire, transport)
              /\ pending' = Dropped(pending, transport)
              /\ frames' = [frames EXCEPT ![t] = <<>>]
              /\ last' = [last EXCEPT ![t] =
                            Ended(frames[t][1].op, "ConnectionError", TRUE, id, NoMsg)]
              /\ UNCHANGED <<lock, wireIds>>
           \/ \* sent; blocked in recv, holding the lock
              /\ IsOpen(transport)
              /\ lock' = t
              /\ pending' = [pending EXCEPT ![transport] =
                               Append(@, Msg(f.kind, id, 0, 0))]
              /\ wireIds' = Append(wireIds, id)
              /\ frames' = SetTop(t, InRecv(f, "req_in_recv"))
              /\ UNCHANGED <<sockOpen, wire, last>>
    /\ UNCHANGED <<transport, sess, peerClosed, ctl>>

\* recv on no Transport (self._transport is None), on a Transport closed
\* before the call (_sock is None), or on one closed under the blocked
\* reader: the read fails with OSError, or its next chunk finds _sock gone.
ClosedUnderReader(t, tr) ==
    /\ ~IsOpen(tr)
    /\ \E exc \in {"ConnectionError", "AttributeError"} :
          /\ tr = 0 => exc = "AttributeError"
          /\ Raise(t, exc)

\* Transport.recv delivers, and _request applies its rules to the message
ReqRecv(t) ==
    /\ At(t, "request", "req_in_recv")
    /\ LET f == Top(t)
           tr == f.tr
       IN  \/ /\ ClosedUnderReader(t, tr)
              /\ UNCHANGED <<sockOpen, wire, closed>>
           \/ /\ IsOpen(tr)
              /\ wire[tr] # <<>>
              /\ wire' = [wire EXCEPT ![tr] = WireAfterRecv(@)]
              /\ LET item == wire[tr][1]
                     out == RecvOutcome(item)
                     rule == Classify(item, f.req_id)
                 IN  CASE out = "None" ->
                            /\ Raise(t, "ConnectionError")
                            /\ sockOpen' = SockOnRaise("ConnectionError", tr)
                            /\ closed' = closed
                       [] out \in {"ConnectionError", "ProtocolError"} ->
                            /\ Raise(t, out)
                            /\ sockOpen' = SockOnRaise(out, tr)
                            /\ closed' = closed
                       [] out = "msg" /\ rule = "BackendError" ->
                            /\ Raise(t, "BackendError")
                            /\ sockOpen' = SockOnRaise("BackendError", tr)
                            /\ closed' = closed
                       [] out = "msg" /\ rule = "return" ->
                            /\ Return(t, item)
                            /\ sockOpen' = sockOpen
                       [] OTHER ->
                            /\ frames' = SetTop(t, [f EXCEPT !.pc = "req_dispatch",
                                                             !.msg = item,
                                                             !.read = Append(@, item)])
                            /\ UNCHANGED <<sockOpen, lock, last, closed>>
    /\ UNCHANGED <<transport, next_request_id, wireIds, session_id, figures,
                   animators, anim_running, blobs, live_thread_count, pending,
                   peerClosed, ctl>>

(* ----------------------- Session._handle_event ------------------------- *)

\* what the on_tick callback of a BackendAnimator does: nothing that touches
\* the Session, or series.set_data(x, y) as in the class's usage example
CallbackKinds == {"pure", "set_data"}

FiguresAfterEvent(msg) ==
    IF msg.type = "EVT_WINDOW_CLOSED" /\ msg.fig \in DOMAIN figures
    THEN [figures EXCEPT ![msg.fig].visible = FALSE]
    ELSE figures

BlobsAfterEvent(msg) ==
    IF msg.type = "BLOB_RELEASE" THEN blobs \ {msg.fig} ELSE blobs

\* an ANIM_TICK that finds the animator registered for its figure
TickForAnimator(msg) == msg.type = "ANIM_TICK" /\ msg.fig \in animators

\* a message that is dropped without a call of _handle_event
DispatchSkipped(h, msg) == h

\* the calls of _handle_event a caller has made, after one more with msg
Dispatched(h, msg) == Append(h, msg)

\* frame f is inside _handle_event
InDispatch(f) ==
    f.pc \in {"req_dispatch", "show_dispatch", "sleep_dispatch", "in_cb"}

\* _handle_event(msg), called by _request, show() or ipc_sleep
HandleEvent(t) ==
    /\ ~Idle(t)
    /\ Top(t).pc \in {"req_dispatch", "show_dispatch", "sleep_dispatch"}
    /\ LET f == Top(t)
           g == [f EXCEPT !.handled = Dispatched(@, f.msg)]
       IN  \/ \* window closed, blob release, a tick whose callback only
              \* computes, a tick for no animator, any other frame
              /\ figures' = FiguresAfterEvent(f.msg)
              /\ blobs' = BlobsAfterEvent(f.msg)
              /\ frames' = SetTop(t, Resume(g))
              /\ UNCHANGED <<lock, last>>
           \/ \* handle_tick -> on_tick -> series.set_data -> _request
              /\ TickForAnimator(f.msg)
              /\ "set_data" \in CallbackKinds
              /\ Len(frames[t]) < MaxDepth
              /\ IF NotConnected
                 THEN RaiseIn(t, "ConnectionError", TRUE)
                 ELSE /\ frames' = [frames EXCEPT ![t] =
                                      Append([@ EXCEPT ![Len(@)] =
                                                [g EXCEPT !.pc = "in_cb"]],
                                             Frame("request", "req_lock", "set_data"))]
                      /\ UNCHANGED <<lock, last>>
              /\ UNCHANGED <<figures, blobs>>
    /\ UNCHANGED <<transport, sockOpen, next_request_id, wireIds, session_id,
                   animators, anim_running, closed, live_thread_count, net, ctl>>

(* ------------------- Session.show and ipc_sleep ------------------------ *)

\* an operation that is no _request returns
Finish(t, op) ==
    /\ frames' = [frames EXCEPT ![t] = <<>>]
    /\ last' = [last EXCEPT ![t] = Ended(op, "ok", FALSE, 0, NoMsg)]

AnyVisible == \E f \in DOMAIN figures : figures[f].visible

\* select() reports the socket readable: bytes, or the end of the stream
Ready == IsOpen(transport) /\ wire[transport] # <<>>

\* show() on the main thread; every figure has been shown before, so its
\* first loop, over the figures not yet shown, has nothing to do
CallShow(t) ==
    /\ t = "main"
    /\ Idle(t)
    /\ Budget
    /\ ops' = ops + 1
    /\ \A f \in DOMAIN figures : figures[f].visible \/ figures[f].shown_once
    /\ IF NotConnected
       THEN Finish(t, "show")
       ELSE /\ frames' = [frames EXCEPT ![t] = <<Frame("show", "show_loop", "show")>>]
            /\ last' = last
    /\ UNCHANGED <<transport, sockOpen, next_request_id, lock, wireIds, sess,
                   net, events, rv, sub>>

\* one turn of show()'s while loop, up to the recv
ShowLoop(t) ==
    /\ At(t, "show", "show_loop")
    /\ \/ /\ ~AnyVisible \/ NotConnected
          /\ Finish(t, "show")
       \/ /\ AnyVisible /\ ~NotConnected
          /\ live_thread_count = 0
          /\ Ready
          /\ frames' = SetTop(t, [Top(t) EXCEPT !.pc = "show_lock"])
          /\ last' = last
    /\ UNCHANGED <<transport, sockOpen, next_request_id, lock, wireIds, sess,
                   net, ctl>>

\* with self._lock: msg = self._transport.recv() of show(): a blocking
\* acquire, then into recv
ShowLock(t) ==
    /\ At(t, "show", "show_lock")
    /\ lock = NoThread
    /\ lock' = t
    /\ frames' = SetTop(t, InRecv(Top(t), "show_in_recv"))
    /\ UNCHANGED <<transport, sockOpen, next_request_id, wireIds, last, sess,
                   net, ctl>>

\* ipc_sleep(session, duration) on the worker thread, as FramePacer.pace
\* calls it from an animation loop
CallIpcSleep(t) ==
    /\ t = "worker"
    /\ Idle(t)
    /\ Budget
    /\ ops' = ops + 1
    /\ IF NotConnected
       THEN Finish(t, "ipc_sleep")
       ELSE /\ frames' = [frames EXCEPT ![t] =
                            <<Frame("ipc_sleep", "sleep_loop", "ipc_sleep")>>]
            /\ last' = last
    /\ UNCHANGED <<transport, sockOpen, next_request_id, lock, wireIds, sess,
                   net, events, rv, sub>>

\* one turn of ipc_sleep's loop, up to the try-lock
SleepLoop(t) ==
    /\ At(t, "ipc_sleep", "sleep_loop")
    /\ \/ \* the deadline has passed, or select() refuses a closed socket
          /\ Finish(t, "ipc_sleep")
          /\ lock' = lock
       \/ \* session._transport.fileno() with _transport None
          /\ transport = 0
          /\ Raise(t, "AttributeError")
       \/ \* select() reports the socket readable
          /\ Ready
          /\ frames' = SetTop(t, [Top(t) EXCEPT !.pc = "sleep_trylock"])
          /\ UNCHANGED <<lock, last>>
    /\ UNCHANGED <<transport, sockOpen, next_request_id, wireIds, sess, net, ctl>>

\* a try-lock that succeeds whoever holds the lock
AcquiredAlways(t) == TRUE

\* what session._lock.acquire(blocking=False) returns to thread t
Acquired(t) == lock = NoThread

\* acquired = session._lock.acquire(blocking=False): with the lock, go into
\* recv, else sleep and poll again
SleepTryLock(t) ==
    /\ At(t, "ipc_sleep", "sleep_trylock")
    /\ IF Acquired(t)
       THEN /\ lock' = t
            /\ frames' = SetTop(t, InRecv(Top(t), "sleep_in_recv"))
       ELSE /\ lock' = lock
            /\ frames' = SetTop(t, [Top(t) EXCEPT !.pc = "sleep_loop"])
    /\ UNCHANGED <<transport, sockOpen, next_request_id, wireIds, last, sess,
                   net, ctl>>

\* the recv of a drain delivers; the lock is released before the dispatch
DrainRecv(t) ==
    /\ ~Idle(t)
    /\ Top(t).pc \in {"show_in_recv", "sleep_in_recv"}
    /\ LET f == Top(t)
           tr == f.tr
       IN  \/ /\ ClosedUnderReader(t, tr)
              /\ wire' = wire
           \/ /\ IsOpen(tr)
              /\ wire[tr] # <<>>
              /\ wire' = [wire EXCEPT ![tr] = WireAfterRecv(@)]
              /\ LET item == wire[tr][1]
                     out == RecvOutcome(item)
                 IN  CASE out = "None" ->
                            /\ Finish(t, f.op)
                            /\ lock' = LockOnExit(t)
                       [] out \in {"ConnectionError", "ProtocolError"} ->
                            Raise(t, out)
                       [] OTHER ->
                            /\ frames' = SetTop(t, [f EXCEPT
                                 !.pc = IF f.op = "show" THEN "show_dispatch"
                                        ELSE "sleep_dispatch",
                                 !.msg = item,
                                 !.read = Append(@, item)])
                            /\ lock' = LockOnExit(t)
                            /\ last' = last
    /\ UNCHANGED <<transport, sockOpen, next_request_id, wireIds, sess, pending,
                   peerClosed, ctl>>

(* ------------------- Session.close and reconnect ----------------------- *)

\* close() on the main thread, up to self._transport.close(): the flag, the
\* animators, the blob store, REQ_DISCONNECT (errors swallowed), the socket
CallClose(t) ==
    /\ t = "main"
    /\ Idle(t)
    /\ Budget
    /\ ops' = ops + 1
    /\ IF closed
       THEN /\ Finish(t, "close")
            /\ UNCHANGED <<closed, animators, anim_running, blobs, sockOpen,
                           wire, pending>>
       ELSE /\ closed' = TRUE
            /\ anim_running' = {}
            /\ animators' = {}
            /\ blobs' = {}
            /\ sockOpen' = IF IsOpen(transport)
                           THEN [sockOpen EXCEPT ![transport] = FALSE]
                           ELSE sockOpen
            /\ wire' = IF IsOpen(transport) THEN Dropped(wire, transport) ELSE wire
            /\ pending' = IF IsOpen(transport) THEN Dropped(pending, transport)
                          ELSE pending
            /\ frames' = [frames EXCEPT ![t] = <<Frame("close", "close_none", "close")>>]
            /\ last' = last
    /\ UNCHANGED <<transport, next_request_id, lock, wireIds, session_id,
                   figures, live_thread_count, peerClosed, events, rv, sub>>

\* self._transport = None
CloseNone(t) ==
    /\ At(t, "close", "close_none")
    /\ transport' = 0
    /\ Finish(t, "close")
    /\ UNCHANGED <<sockOpen, next_request_id, lock, wireIds, sess, net, ctl>>

\* reconnect() on the main thread: with no open transport it connects,
\* sends HELLO and reads the reply, without the lock; then it sends
\* REQ_RECONNECT through _request
CallReconnect(t) ==
    /\ t = "main"
    /\ Idle(t)
    /\ Budget
    /\ ops' = ops + 1
    /\ \/ /\ ~NotConnected
          /\ frames' = [frames EXCEPT ![t] =
                          <<Frame("request", "req_lock", "reconnect")>>]
          /\ UNCHANGED <<transport, sockOpen, pending, last>>
       \/ \* nobody listens on the socket path: Transport.connect raises
          /\ NotConnected
          /\ frames' = frames
          /\ last' = [last EXCEPT ![t] =
                        Ended("reconnect", "ConnectionError", FALSE, 0, NoMsg)]
          /\ UNCHANGED <<transport, sockOpen, pending>>
       \/ \* connected, HELLO sent, blocked in recv
          /\ NotConnected
          /\ sockOpen' = Append(sockOpen, TRUE)
          /\ transport' = Len(sockOpen) + 1
          /\ pending' = [pending EXCEPT ![transport'] =
                           Append(@, Msg("HELLO", 0, 0, 0))]
          /\ frames' = [frames EXCEPT ![t] =
                          <<[Frame("reconnect", "rc_in_recv", "reconnect")
                               EXCEPT !.tr = transport']>>]
          /\ last' = last
    /\ UNCHANGED <<next_request_id, lock, wireIds, sess, wire, peerClosed,
                   events, rv, sub>>

\* the handshake reply arrives; with a WELCOME, reconnect goes on to _request
RcRecv(t) ==
    /\ At(t, "reconnect", "rc_in_recv")
    /\ LET f == Top(t)
           tr == f.tr
       IN  \/ /\ ClosedUnderReader(t, tr)
              /\ UNCHANGED <<wire, session_id>>
           \/ /\ IsOpen(tr)
              /\ wire[tr] # <<>>
              /\ wire' = [wire EXCEPT ![tr] = WireAfterRecv(@)]
              /\ LET item == wire[tr][1]
                     out == RecvOutcome(item)
                 IN  CASE out \in {"None", "ConnectionError"} ->
                            /\ Raise(t, "ConnectionError")
                            /\ session_id' = session_id
                       [] out = "ProtocolError" \/ item.type # "WELCOME" ->
                            /\ Raise(t, "ProtocolError")
                            /\ session_id' = session_id
                       [] OTHER ->
                            /\ session_id' = item.fig
                            /\ IF NotConnected
                               THEN RaiseIn(t, "ConnectionError", TRUE)
                               ELSE /\ frames' = SetTop(t, Frame("request", "req_lock",
                                                                 "reconnect"))
                                    /\ UNCHANGED <<lock, last>>
    /\ UNCHANGED <<transport, sockOpen, next_request_id, wireIds, figures,
                   animators, anim_running, blobs, closed, live_thread_count,
                   pending, peerClosed, ctl>>
(* ------------------------------ the peer ------------------------------- *)

\* Transport objects the Session can come to own: the first, and one more
\* for each reconnect
Transports == 1..(1 + MaxOps)

\* the response type that carries the data asked for by request type
ResponseType(type) ==
    CASE type = "list_figures" -> "RESP_FIGURE_LIST"
      [] type = "reconnect" -> "RESP_SNAPSHOT"
      [] OTHER -> "RESP_OK"

\* How the backend may answer the frame `req` it received on transport tr:
\* a response with the request id in its header, a RESP_OK with the id in
\* its payload only, an error for the request, an error for no request.
Replies(req, tr) ==
    IF req.type = "HELLO"
    THEN {Msg("WELCOME", 0, 0, WelcomeSid(tr)), Msg("RESP_ERR", 0, 0, 0)}
    ELSE {Msg(ResponseType(req.type), req.request_id, req.request_id, 0),
          Msg("RESP_OK", 0, req.request_id, 0),
          Msg("RESP_ERR", req.request_id, req.request_id, 0),
          Msg("RESP_ERR", 0, 0, 0)}

\* The peer can write on transport tr: the connection is up and the client
\* has read the frame written before.
Connected(tr) ==
    /\ tr \in 1..Len(sockOpen)
    /\ sockOpen[tr] /\ ~peerClosed[tr]
    /\ wire[tr] = <<>>

PeerReply(tr) ==
    /\ Connected(tr)
    /\ pending[tr] # <<>>
    /\ \E m \in Replies(pending[tr][1], tr) :
          wire' = [wire EXCEPT ![tr] = Append(@, m)]
    /\ pending' = [pending EXCEPT ![tr] = Tail(@)]
    /\ UNCHANGED <<transport, sockOpen, next_request_id, lock, wireIds, frames,
                   last, sess, peerClosed, ctl>>

\* the events the backend pushes for the figure of this run: its window was
\* closed, its animation ticked
Unsolicited == {Msg(e, 0, 0, 1) : e \in {"EVT_WINDOW_CLOSED", "ANIM_TICK"}}

PeerEvent(tr) ==
    /\ Connected(tr)
    /\ events < MaxEvents
    /\ events' = events + 1
    /\ \E m \in Unsolicited : wire' = [wire EXCEPT ![tr] = Append(@, m)]
    /\ UNCHANGED <<transport, sockOpen, next_request_id, lock, wireIds, frames,
                   last, sess, pending, peerClosed, ops, rv, sub>>

\* the last thing the backend writes: it closes the connection, between
\* frames or inside one, or writes bytes that are no frame
PeerClose(tr) ==
    /\ Connected(tr)
    /\ peerClosed' = [peerClosed EXCEPT ![tr] = TRUE]
    /\ \E m \in {EndOfStream, Truncated, BadFrame} :
          wire' = [wire EXCEPT ![tr] = Append(@, m)]
    /\ UNCHANGED <<transport, sockOpen, next_request_id, lock, wireIds, frames,
                   last, sess, pending, ctl>>

(* --------------------------- specification ----------------------------- *)

\* the requests the program has made before the modelled run starts:
\* figure(), Figure.show() and BackendAnimator.start()
SetupRequests == <<1, 2, 3>>

\* A constructed Session (handshake done on transport 1) with one figure
\* created and shown, its BackendAnimator started and one blob in the store.
Constructed ==
    /\ transport = 1
    /\ sockOpen = <<TRUE>>
    /\ closed = FALSE
    /\ animators = FigIds
    /\ anim_running = FigIds
    /\ blobs = BlobNames

\* that Session after close()
AfterClose ==
    /\ transport = 0
    /\ sockOpen = <<FALSE>>
    /\ closed = TRUE
    /\ animators = {}
    /\ anim_running = {}
    /\ blobs = {}

\* no operation under way, nothing on the wire
Quiet ==
    /\ session_id = WelcomeSid(1)
    /\ next_request_id = Len(SetupRequests)
    /\ lock = NoThread
    /\ figures = [f \in FigIds |-> [visible |-> TRUE, shown_once |-> TRUE]]
    /\ wire = [tr \in Transports |-> <<>>]
    /\ pending = [tr \in Transports |-> <<>>]
    /\ peerClosed = [tr \in Transports |-> FALSE]
    /\ wireIds = SetupRequests
    /\ frames = [t \in Threads |-> <<>>]
    /\ last = [t \in Threads |-> Ended("none", "none", FALSE, 0, NoMsg)]
    /\ ops = 0
    /\ events = 0
    /\ live_thread_count = 0

\* no Transport.recv is followed byte by byte
NoRecv == [pc |-> "none"]

\* an object a specification does not follow
Unused == [pc |-> "none"]

AuxUnused ==
    /\ disp = Unused /\ pacer = Unused /\ rc = Unused /\ loop = Unused
    /\ codec = Unused /\ rq = Unused

Init ==
    /\ Constructed \/ AfterClose
    /\ Quiet
    /\ rv = NoRecv
    /\ tport = Unused /\ boot = Unused /\ live = Unused
    /\ store = Unused /\ chunked = Unused
    /\ AuxUnused

Next ==
    \/ \E t \in Threads : CallRequest(t)
    \/ \E t \in Threads : ReqLock(t)
    \/ \E t \in Threads : ReqRecv(t)
    \/ \E t \in Threads : HandleEvent(t)
    \/ \E t \in Threads : CallShow(t)
    \/ \E t \in Threads : ShowLoop(t)
    \/ \E t \in Threads : ShowLock(t)
    \/ \E t \in Threads : CallIpcSleep(t)
    \/ \E t \in Threads : SleepLoop(t)
    \/ \E t \in Threads : SleepTryLock(t)
    \/ \E t \in Threads : DrainRecv(t)
    \/ \E t \in Threads : CallClose(t)
    \/ \E t \in Threads : CloseNone(t)
    \/ \E t \in Threads : CallReconnect(t)
    \/ \E t \in Threads : RcRecv(t)
    \/ \E tr \in Transports : PeerReply(tr)
    \/ \E tr \in Transports : PeerEvent(tr)
    \/ \E tr \in Transports : PeerClose(tr)

Spec == Init /\ [][Next]_vars

(* ------------------ Transport.recv, byte by byte ----------------------- *)

HEADER_SIZE == 40
MAX_PAYLOAD_SIZE == 268435456
\* b"\x53\x50"
MAGIC == <<83, 80>>

\* payload lengths followed with every split into reads
MaxPayload == 3

Min(a, b) == IF a < b THEN a ELSE b

\* struct "<": an unsigned integer as `width` bytes, least significant first
RECURSIVE LittleEndian(_, _)
LittleEndian(n, width) ==
    IF width = 0 THEN <<>>
    ELSE <<n % 256>> \o LittleEndian(n \div 256, width - 1)

RECURSIVE FromLittleEndian(_)
FromLittleEndian(bytes) ==
    IF bytes = <<>> THEN 0
    ELSE bytes[1] + 256 * FromLittleEndian(Tail(bytes))

\* struct.pack(HEADER_FMT, MAGIC, msg_type, payload_len, seq, request_id,
\* session_id, window_id)
encode_header(msg_type, payload_len, seq, request_id, sid, window_id) ==
    MAGIC \o LittleEndian(msg_type, 2) \o LittleEndian(payload_len, 4)
          \o LittleEndian(seq, 8) \o LittleEndian(request_id, 8)
          \o LittleEndian(sid, 8) \o LittleEndian(window_id, 8)

\* what decode_header returns for None
NoHeader ==
    [valid |-> FALSE, type |-> 0, payload_len |-> 0, seq |-> 0,
     request_id |-> 0, session_id |-> 0, window_id |-> 0]

\* a decoder that takes any first two bytes
DecodeAnyMagic(data) ==
    IF Len(data) < HEADER_SIZE THEN NoHeader
    ELSE [valid |-> TRUE,
          type |-> FromLittleEndian(SubSeq(data, 3, 4)),
          payload_len |-> FromLittleEndian(SubSeq(data, 5, 8)),
          seq |-> FromLittleEndian(SubSeq(data, 9, 16)),
          request_id |-> FromLittleEndian(SubSeq(data, 17, 24)),
          session_id |-> FromLittleEndian(SubSeq(data, 25, 32)),
          window_id |-> FromLittleEndian(SubSeq(data, 33, 40))]

\* decode_header(data): None for fewer than HEADER_SIZE bytes or another
\* magic, else the six fields; payload_len is not looked at
decode_header(data) ==
    IF Len(data) < HEADER_SIZE THEN NoHeader
    ELSE IF SubSeq(data, 1, 2) # MAGIC THEN NoHeader
    ELSE [valid |-> TRUE,
          type |-> FromLittleEndian(SubSeq(data, 3, 4)),
          payload_len |-> FromLittleEndian(SubSeq(data, 5, 8)),
          seq |-> FromLittleEndian(SubSeq(data, 9, 16)),
          request_id |-> FromLittleEndian(SubSeq(data, 17, 24)),
          session_id |-> FromLittleEndian(SubSeq(data, 25, 32)),
          window_id |-> FromLittleEndian(SubSeq(data, 33, 40))]

\* a limit that refuses the maximum itself
TooLargeFromMax(payload_len) == payload_len >= MAX_PAYLOAD_SIZE

\* recv's check of the decoded payload_len
TooLarge(payload_len) == payload_len > MAX_PAYLOAD_SIZE

\* an empty chunk always taken for a clean close
RecvallNoneOnEmpty(got) == "None"

\* _recvall when the socket returns an empty chunk with `got` bytes in buf
RecvallOnEmpty(got) == IF got = 0 THEN "None" ELSE "ConnectionError"

\* The sizes of the chunk one self._sock.recv(want) may return when `left`
\* bytes of the stream remain: any size from 1 up to both; for reads longer
\* than a header the model follows the whole, all but one byte, and half.
ChunkSizes(want, left) ==
    LET m == Min(want, left)
    IN  IF m <= HEADER_SIZE THEN 1..m ELSE {m, m - 1, (m + 1) \div 2}

\* the first two bytes of a header that is not Spectra's
BadMagic == <<83, 81>>

\* a header as the peer writes it (a RESP_FIGURE_LIST, 0x0544, for request
\* 7 of session 11), with the magic given
HeaderBytes(magic, payload_len) ==
    magic \o SubSeq(encode_header(1348, payload_len, 1, 7, 11, 0), 3, HEADER_SIZE)

\* the payload_len values of the streams read
PayloadLens ==
    (0..MaxPayload) \cup
    {MAX_PAYLOAD_SIZE - 1, MAX_PAYLOAD_SIZE, MAX_PAYLOAD_SIZE + 1}

\* where a stream whose header announces payload_len may end: anywhere in
\* the header or a short payload, and around the end of the frame
StreamLens(payload_len) ==
    (0..(HEADER_SIZE + MaxPayload + 1)) \cup
    {HEADER_SIZE + payload_len - 1, HEADER_SIZE + payload_len,
     HEADER_SIZE + payload_len + 1}

\* One call of Transport.recv and the stream it reads: the header the stream
\* starts with, the number of bytes the stream has before it ends, how it
\* ends (the peer's close, or an OSError), whether _sock is set; then recv's
\* position: bytes taken from the socket, len(buf) of the _recvall under way,
\* whether some read returned less than it asked for, and the outcome.
RecvCalls ==
    {[pc |-> "call", sock |-> sk, hdr |-> HeaderBytes(mg, pl), avail |-> n,
      ending |-> e, pos |-> 0, got |-> 0, partial |-> FALSE,
      header |-> NoHeader, payload |-> 0, result |-> "pending"] :
        sk \in BOOLEAN, mg \in {MAGIC, BadMagic}, pl \in PayloadLens,
        n \in UNION {StreamLens(q) : q \in PayloadLens},
        e \in {"eof", "error"}}

Ends(r, result) == [r EXCEPT !.pc = "done", !.result = result]

\* recv() up to its first read: if self._sock is None: raise ConnectionError
RecvCall ==
    /\ rv.pc = "call"
    /\ rv' = IF rv.sock THEN [rv EXCEPT !.pc = "header"]
             ELSE Ends(rv, "ConnectionError")
    /\ UNCHANGED <<transport, sockOpen, next_request_id, lock, wireIds, frames,
                   last, sess, net, ops, events, sub>>

\* recv once _recvall(HEADER_SIZE) has returned the header bytes
AfterHeader(r) ==
    LET hdr == decode_header(SubSeq(r.hdr, 1, r.got))
    IN  IF ~hdr.valid THEN Ends(r, "ProtocolError")
        ELSE IF TooLarge(hdr.payload_len)
        THEN Ends([r EXCEPT !.header = hdr], "ProtocolError")
        ELSE IF hdr.payload_len > 0
        THEN [r EXCEPT !.header = hdr, !.pc = "payload", !.got = 0]
        ELSE Ends([r EXCEPT !.header = hdr, !.payload = 0], "frame")

\* r after a chunk of k bytes has been appended to buf
Chunk(r, k, want) ==
    [r EXCEPT !.got = @ + k, !.pos = @ + k,
              !.partial = @ \/ k < want]

\* one self._sock.recv of _recvall(HEADER_SIZE), and what recv does with the
\* header once it is whole
RecvHeader ==
    /\ rv.pc = "header"
    /\ LET want == HEADER_SIZE - rv.got
           left == rv.avail - rv.pos
       IN  IF left = 0
           THEN rv' = Ends(rv, IF rv.ending = "error" THEN "ConnectionError"
                               ELSE RecvallOnEmpty(rv.got))
           ELSE \E k \in ChunkSizes(want, left) :
                   rv' = IF k < want THEN Chunk(rv, k, want)
                         ELSE AfterHeader(Chunk(rv, k, want))
    /\ UNCHANGED <<transport, sockOpen, next_request_id, lock, wireIds, frames,
                   last, sess, net, ops, events, sub>>

\* one self._sock.recv of _recvall(payload_len); a None from _recvall makes
\* recv raise ConnectionError
RecvPayload ==
    /\ rv.pc = "payload"
    /\ LET want == rv.header.payload_len - rv.got
           left == rv.avail - rv.pos
       IN  IF left = 0
           THEN rv' = Ends(rv, IF rv.ending = "error" THEN "ConnectionError"
                               ELSE IF RecvallOnEmpty(rv.got) = "None"
                               THEN "ConnectionError"
                               ELSE RecvallOnEmpty(rv.got))
           ELSE \E k \in ChunkSizes(want, left) :
                   rv' = IF k < want THEN Chunk(rv, k, want)
                         ELSE Ends([Chunk(rv, k, want) EXCEPT
                                      !.payload = rv.got + k], "frame")
    /\ UNCHANGED <<transport, sockOpen, next_request_id, lock, wireIds, frames,
                   last, sess, net, ops, events, sub>>

InitRecv ==
    /\ Constructed
    /\ Quiet
    /\ rv \in RecvCalls
    /\ tport = Unused /\ boot = Unused /\ live = Unused
    /\ store = Unused /\ chunked = Unused
    /\ AuxUnused

NextRecv == RecvCall \/ RecvHeader \/ RecvPayload

SpecRecv == InitRecv /\ [][NextRecv]_vars

(* ------------------ Transport, call after call ------------------------- *)

\* what the specifications of the Session and of one recv follow
core == <<transport, sockOpen, next_request_id, lock, wireIds, frames, last,
          sess, net, ops, events, rv>>

\* calls of send and recv made on the one Transport
MaxCalls == 3

\* Transport.is_open
is_open(tp) == tp.sock

\* Transport.close(): _sock is closed and set to None
close(tp) == [tp EXCEPT !.sock = FALSE]

\* What the socket does to the writes of one _sendall: it takes all the bytes,
\* or a write raises OSError (EPIPE or ECONNRESET once the peer is gone, a
\* timeout while it is up). self._sock.send of a non-empty view never
\* returns 0, so the n == 0 branch of _sendall is not taken.
SockSend(peer) == {"sent", "OSError"}

\* What the socket does to the reads of one recv: while the peer is up a
\* whole frame, bytes that are no frame, or OSError (the 5 s timeout); once
\* it is gone the end of the stream before any byte of a message, the end
\* inside a message, or OSError (ECONNRESET).
SockRecv(peer) ==
    IF peer = "up" THEN {"frame", "badframe", "OSError"}
    ELSE {"eof", "midmessage", "OSError"}

\* how Transport.recv ends for what its reads met
RecvResult(met) ==
    CASE met = "frame" -> "frame"
      [] met = "badframe" -> "ProtocolError"
      [] met = "eof" -> RecvallOnEmpty(0)
      [] met = "midmessage" -> RecvallOnEmpty(1)
      [] OTHER -> "ConnectionError"

\* the read of a call ended in an I/O error: OSError, or the peer's close in
\* the middle of a message
IoError(met) == met \in {"OSError", "midmessage"}

\* The record of one call: the method, how it ended, whether it used the
\* socket, whether it ended in an I/O error, and is_open after it.
Logged(tp, op, result, used, io) ==
    [tp EXCEPT !.log = Append(@, [op |-> op, result |-> result, used |-> used,
                                  io |-> io, open |-> is_open(tp)])]

\* Transport.send
TransportSend ==
    /\ tport.pc = "ready"
    /\ Len(tport.log) < MaxCalls
    /\ IF ~tport.sock
       THEN tport' = Logged(tport, "send", "ConnectionError", FALSE, FALSE)
       ELSE \E met \in SockSend(tport.peer) :
               LET tp == [tport EXCEPT !.seq = @ + 1]
               IN  tport' = IF met = "OSError"
                            THEN Logged(close(tp), "send", "ConnectionError",
                                        TRUE, TRUE)
                            ELSE Logged(tp, "send", "seq", TRUE, FALSE)
    /\ UNCHANGED <<core, boot, live, store, chunked, aux>>

\* Transport.recv: no path of recv or _recvall touches _sock
TransportRecv ==
    /\ tport.pc = "ready"
    /\ Len(tport.log) < MaxCalls
    /\ IF ~tport.sock
       THEN tport' = Logged(tport, "recv", "ConnectionError", FALSE, FALSE)
       ELSE \E met \in SockRecv(tport.peer) :
               tport' = Logged(tport, "recv", RecvResult(met), TRUE, IoError(met))
    /\ UNCHANGED <<core, boot, live, store, chunked, aux>>

\* the backend closes the connection, or dies
TransportPeerGone ==
    /\ tport.pc = "ready"
    /\ tport.peer = "up"
    /\ tport' = [tport EXCEPT !.peer = "gone"]
    /\ UNCHANGED <<core, boot, live, store, chunked, aux>>

\* Transport.connect has returned the Transport
InitTransport ==
    /\ Constructed
    /\ Quiet
    /\ rv = NoRecv
    /\ tport = [pc |-> "ready", sock |-> TRUE, seq |-> 0, peer |-> "up",
                log |-> <<>>]
    /\ boot = Unused /\ live = Unused /\ store = Unused /\ chunked = Unused
    /\ AuxUnused

NextTransport == TransportSend \/ TransportRecv \/ TransportPeerGone

SpecTransport == InitTransport /\ [][NextTransport]_vars

(* ------------------ Session.__init__ and _connect ---------------------- *)

\* a start-up loop that tries three times whatever auto_launch says
MaxAttemptsAlways(auto_launch) == 3

\* max_attempts = 3 if auto_launch else 1
max_attempts(auto_launch) == IF auto_launch THEN 3 ELSE 1

\* a failed _connect that leaves self._transport as it is
TransportKept(tr) == tr

\* self._transport after the except clause of _connect: None
TransportAfterFailure(tr) == 0

\* the exceptions __init__ catches and retries after
Transient == {"ConnectionError", "OSError"}

\* how ensure_backend may end: it returns the socket path, it raises
\* RuntimeError (no binary, or no backend within the timeout), or makedirs or
\* Popen raise OSError
EnsureOutcomes == {"ok", "RuntimeError", "OSError"}

\* the frames a peer may send in reply to HELLO
HelloReplies == {"WELCOME", "RESP_ERR"}

\* Session.__init__ at the top of an attempt, with nothing yet done in it
Attempt(auto_launch, attempt, failed) ==
    [pc |-> "attempt", auto_launch |-> auto_launch, attempt |-> attempt,
     hellos |-> 0, reads |-> 0, reply |-> "none", sid |-> 0,
     where |-> "none", exc |-> "none", failed |-> failed,
     result |-> "pending"]

\* an exception leaves the attempt, from ensure_backend or from _connect
Raised(b, where, exc) == [b EXCEPT !.pc = "raised", !.where = where, !.exc = exc]

\* for attempt in range(1, max_attempts + 1): ensure_backend when auto_launch
\* is on, then into _connect
BootAttempt ==
    /\ boot.pc = "attempt"
    /\ \E out \in EnsureOutcomes :
          /\ ~boot.auto_launch => out = "ok"
          /\ boot' = IF out = "ok" THEN [boot EXCEPT !.pc = "connect"]
                     ELSE Raised(boot, "ensure_backend", out)
    /\ UNCHANGED <<core, tport, live, store, chunked, aux>>

\* _connect up to its recv: Transport.connect, then the HELLO; a failure goes
\* through the except clause, which closes the transport and drops it
BootConnect ==
    /\ boot.pc = "connect"
    /\ \/ \* Transport.connect raises ConnectionError: no transport yet
          /\ boot' = Raised(boot, "_connect", "ConnectionError")
          /\ transport' = IF transport = 0 THEN 0 ELSE TransportAfterFailure(transport)
          /\ sockOpen' = IF transport = 0 THEN sockOpen
                         ELSE [sockOpen EXCEPT ![transport] = FALSE]
       \/ \* connected and HELLO sent
          /\ sockOpen' = Append(sockOpen, TRUE)
          /\ transport' = Len(sockOpen) + 1
          /\ boot' = [boot EXCEPT !.pc = "handshake", !.hellos = @ + 1]
       \/ \* connected, and the send of HELLO fails
          /\ sockOpen' = Append(sockOpen, FALSE)
          /\ transport' = TransportAfterFailure(Len(sockOpen) + 1)
          /\ boot' = Raised([boot EXCEPT !.hellos = @ + 1], "_connect",
                            "ConnectionError")
    /\ UNCHANGED <<next_request_id, lock, wireIds, frames, last, sess, net, ops,
                   events, rv, tport, live, store, chunked, aux>>

\* how _connect goes on from what its recv returned or raised
AfterReply(res, type) ==
    CASE res = "None" -> "ConnectionError"
      [] res = "frame" /\ type = "WELCOME" -> "ok"
      [] res = "frame" -> "ProtocolError"
      [] OTHER -> res

\* msg = self._transport.recv() of _connect and what follows it
BootHandshake ==
    /\ boot.pc = "handshake"
    /\ \E met \in SockRecv("up") \cup SockRecv("gone") , type \in HelloReplies :
          LET res == RecvResult(met)
              end == AfterReply(res, type)
              b == [boot EXCEPT !.reads = @ + 1,
                                !.reply = IF res = "frame" THEN type ELSE res,
                                !.sid = IF res = "frame" /\ type = "WELCOME"
                                        THEN WelcomeSid(transport) ELSE 0]
          IN  /\ met # "frame" => type = "WELCOME"
              /\ IF end = "ok"
                 THEN /\ session_id' = b.sid
                      /\ boot' = [b EXCEPT !.pc = "done", !.result = "ok"]
                      /\ UNCHANGED <<transport, sockOpen>>
                 ELSE /\ session_id' = session_id
                      /\ boot' = Raised(b, "_connect", end)
                      /\ sockOpen' = [sockOpen EXCEPT ![transport] = FALSE]
                      /\ transport' = TransportAfterFailure(transport)
    /\ UNCHANGED <<next_request_id, lock, wireIds, frames, last, figures,
                   animators, anim_running, blobs, closed, live_thread_count,
                   net, ops, events, rv, tport, live, store, chunked, aux>>

\* except (ConnectionError, OSError): the next attempt, or after the last
\* one raise ConnectionError; any other exception leaves __init__
BootExcept ==
    /\ boot.pc = "raised"
    /\ boot' =
         IF boot.exc \in Transient
         THEN IF boot.attempt < max_attempts(boot.auto_launch)
              THEN Attempt(boot.auto_launch, boot.attempt + 1,
                           Append(boot.failed, boot.exc))
              ELSE [boot EXCEPT !.pc = "done", !.result = "ConnectionError"]
         ELSE [boot EXCEPT !.pc = "done", !.result = boot.exc]
    /\ UNCHANGED <<core, tport, live, store, chunked, aux>>

\* Session.__init__ before its loop: no transport, session id 0, no figure
InitConnect ==
    /\ transport = 0
    /\ sockOpen = <<>>
    /\ session_id = 0
    /\ next_request_id = 0
    /\ lock = NoThread
    /\ figures = <<>>
    /\ animators = {} /\ anim_running = {} /\ blobs = {}
    /\ closed = FALSE
    /\ live_thread_count = 0
    /\ wire = [tr \in Transports |-> <<>>]
    /\ pending = [tr \in Transports |-> <<>>]
    /\ peerClosed = [tr \in Transports |-> FALSE]
    /\ wireIds = <<>>
    /\ frames = [t \in Threads |-> <<>>]
    /\ last = [t \in Threads |-> Ended("none", "none", FALSE, 0, NoMsg)]
    /\ ops = 0 /\ events = 0
    /\ rv = NoRecv
    /\ boot \in {Attempt(a, 1, <<>>) : a \in BOOLEAN}
    /\ tport = Unused /\ live = Unused /\ store = Unused /\ chunked = Unused
    /\ AuxUnused

NextConnect == BootAttempt \/ BootConnect \/ BootHandshake \/ BootExcept

SpecConnect == InitConnect /\ [][NextConnect]_vars

(* ---------------------- show() beside live() --------------------------- *)

\* live(callback) called on a thread other than the one inside show(): up
\* to thread.start(), with session._live_thread_count += 1 before it
LiveCall ==
    /\ live.pc = "idle"
    /\ live' = [live EXCEPT !.pc = "running"]
    /\ live_thread_count' = live_thread_count + 1
    /\ UNCHANGED <<transport, sockOpen, next_request_id, lock, wireIds, frames,
                   last, session_id, figures, animators, anim_running, blobs,
                   closed, net, ops, events, rv, tport, boot, store, chunked, aux>>

\* one turn of _loop on the live thread starts: the callback's set_data, a
\* _request, or pacer.pace(session), an ipc_sleep
LiveTurn(t) ==
    /\ t = "worker"
    /\ live.pc = "running"
    /\ CallRequest(t) \/ CallIpcSleep(t)

\* _loop ends between two turns: finally: session._live_thread_count -= 1
LiveExit(t) ==
    /\ t = "worker"
    /\ live.pc = "running"
    /\ Idle(t)
    /\ live' = [live EXCEPT !.pc = "done"]
    /\ live_thread_count' = live_thread_count - 1
    /\ UNCHANGED <<transport, sockOpen, next_request_id, lock, wireIds, frames,
                   last, session_id, figures, animators, anim_running, blobs,
                   closed, net, ops, events, rv, tport, boot, store, chunked, aux>>

\* the constructed Session, no live() call made yet
InitLive ==
    /\ Constructed
    /\ Quiet
    /\ rv = NoRecv
    /\ live = [pc |-> "idle"]
    /\ tport = Unused /\ boot = Unused /\ store = Unused /\ chunked = Unused
    /\ AuxUnused

\* show() on the main thread, live() and its thread, the peer
NextLive ==
    \/ LiveCall
    \/ \E t \in Threads : LiveTurn(t)
    \/ \E t \in Threads : LiveExit(t)
    \/ \E t \in Threads : CallShow(t)
    \/ \E t \in Threads : ShowLoop(t)
    \/ \E t \in Threads : ShowLock(t)
    \/ \E t \in Threads : ReqLock(t)
    \/ \E t \in Threads : ReqRecv(t)
    \/ \E t \in Threads : HandleEvent(t)
    \/ \E t \in Threads : SleepLoop(t)
    \/ \E t \in Threads : SleepTryLock(t)
    \/ \E t \in Threads : DrainRecv(t)
    \/ \E tr \in Transports : PeerReply(tr)
    \/ \E tr \in Transports : PeerEvent(tr)
    \/ \E tr \in Transports : PeerClose(tr)

SpecLive == InitLive /\ [][NextLive]_vars

\* every thread that can take a step of a call it is in takes it: the loop
\* of show() polls every 0.1 s, a blocked recv returns when data is there,
\* a lock is taken when it is free; the backend answers the requests it
\* has received. Nothing is assumed of the calls the program starts or of
\* the live thread's callback
FairSpecLive ==
    /\ SpecLive
    /\ \A tr \in Transports : WF_vars(PeerReply(tr))
    /\ \A t \in Threads :
          /\ WF_vars(ShowLoop(t)) /\ WF_vars(ShowLock(t))
          /\ WF_vars(DrainRecv(t)) /\ WF_vars(HandleEvent(t))
          /\ WF_vars(ReqLock(t)) /\ WF_vars(ReqRecv(t))
          /\ WF_vars(SleepLoop(t)) /\ WF_vars(SleepTryLock(t))

(* --------------------------- BlobStore --------------------------------- *)

BLOB_TTL == 60

\* blobs created, calls made on the store, advances of the clock
MaxBlobs == 2
MaxStoreOps == 3
MaxTicks == 2

\* the store's methods
StoreOps == {"create_blob", "release_blob", "cleanup_expired", "cleanup_all",
             "active_count"}

\* an expiry test that counts a blob of age BLOB_TTL as expired
IsExpiredAtTtl(created_at, now) == (now - created_at) >= BLOB_TTL

\* BlobRef.is_expired, with time.monotonic() = now
is_expired(created_at, now) == (now - created_at) > BLOB_TTL

\* a pop that empties the dict
PoppedAll(names, name) == <<>>

\* the keys of _blobs, in insertion order, after _blobs.pop(name, None) or
\* del _blobs[name]
Popped(names, name) == SelectSeq(names, LAMBDA n : n # name)

\* a `with` block that keeps the lock
StillLocked(t) == t

\* BlobStore._lock once thread t leaves its `with self._lock` block
Unlocked(t) == NoThread

\* the names in a sequence
Names(q) == {q[i] : i \in 1..Len(q)}

\* A call on the store: the method and its argument, where it stands, the
\* keys of _blobs when it took the lock and when it released it, what
\* cleanup_expired has examined and collected, the refs still to release,
\* the names it has unlinked, and what it returned.
StoreCall(op, name) ==
    [pc |-> "lock", op |-> op, name |-> name, before |-> <<>>, after |-> <<>>,
     seen |-> <<>>, expired |-> <<>>, refs |-> <<>>, unlinked |-> <<>>,
     ret |-> "pending"]

NoCall == [StoreCall("none", 0) EXCEPT !.pc = "returned"]

Returns(c, ret) == [c EXCEPT !.pc = "returned", !.ret = ret]

\* A thread calls a method of the store. create_blob first takes the next
\* name, creates the segment and the BlobRef (created_at = now), or returns
\* None when shared memory refuses; release_blob is called with a name.
CallStore(t) ==
    /\ store.calls[t].pc = "returned"
    /\ store.ops < MaxStoreOps
    /\ \E op \in StoreOps :
          \/ /\ op = "create_blob"
             /\ Len(store.created) < MaxBlobs
             /\ LET name == Len(store.created) + 1
                IN  \/ store' = [store EXCEPT
                           !.ops = @ + 1,
                           !.created = Append(@, store.now),
                           !.linked = @ \cup {name},
                           !.calls[t] = StoreCall(op, name)]
                    \/ store' = [store EXCEPT
                           !.ops = @ + 1,
                           !.created = Append(@, store.now),
                           !.calls[t] = Returns(StoreCall(op, name), "None")]
          \/ /\ op = "release_blob"
             /\ \E name \in 0..MaxBlobs :
                   store' = [store EXCEPT !.ops = @ + 1,
                                          !.calls[t] = StoreCall(op, name)]
          \/ /\ op \in {"cleanup_expired", "cleanup_all", "active_count"}
             /\ store' = [store EXCEPT !.ops = @ + 1,
                                       !.calls[t] = StoreCall(op, 0)]
    /\ UNCHANGED <<core, tport, boot, live, chunked, aux>>

\* with self._lock: the thread waits until the lock is free and takes it
StoreLock(t) ==
    /\ store.calls[t].pc = "lock"
    /\ store.lock = NoThread
    /\ store' = [store EXCEPT !.lock = t,
                              !.calls[t].pc = "locked",
                              !.calls[t].before = store.blobs]
    /\ UNCHANGED <<core, tport, boot, live, chunked, aux>>

\* how often each name has been taken out of _blobs so far, after an
\* operation has taken the names in q out of it
Removed(q) ==
    [n \in DOMAIN store.removed |->
        store.removed[n] + (IF n \in Names(q) THEN 1 ELSE 0)]

\* the call of thread t leaves its `with` block with _blobs = names, having
\* taken the names in q out of it
Leave(t, names, q, c) ==
    [store EXCEPT !.lock = Unlocked(t), !.blobs = names,
                  !.removed = Removed(q),
                  !.calls[t] = [c EXCEPT !.after = names]]

\* The block under the lock. cleanup_expired examines one item of
\* list(self._blobs.items()) per step, reading the clock for each.
StoreLocked(t) ==
    /\ store.calls[t].pc = "locked"
    /\ LET c == store.calls[t]
           i == Len(c.seen) + 1
       IN  store' =
             CASE c.op = "create_blob" ->
                    Leave(t, Append(store.blobs, c.name), <<>>, Returns(c, "ref"))
               [] c.op = "release_blob" ->
                    IF c.name \in Names(store.blobs)
                    THEN Leave(t, Popped(store.blobs, c.name), <<c.name>>,
                               [c EXCEPT !.pc = "release", !.refs = <<c.name>>])
                    ELSE Leave(t, Popped(store.blobs, c.name), <<>>,
                               Returns(c, "None"))
               [] c.op = "cleanup_all" ->
                    Leave(t, <<>>, store.blobs,
                          [c EXCEPT !.pc = "release", !.refs = store.blobs])
               [] c.op = "active_count" ->
                    Leave(t, store.blobs, <<>>, Returns(c, Len(store.blobs)))
               [] OTHER ->
                    IF i <= Len(c.before)
                    THEN LET name == c.before[i]
                             age == store.now - store.created[name]
                             exp == is_expired(store.created[name], store.now)
                         IN  [store EXCEPT
                                !.blobs = IF exp THEN Popped(@, name) ELSE @,
                                !.removed = IF exp THEN Removed(<<name>>)
                                            ELSE @,
                                !.calls[t].seen =
                                   Append(@, [name |-> name, age |-> age,
                                              removed |-> exp]),
                                !.calls[t].expired =
                                   IF exp THEN Append(@, name) ELSE @]
                    ELSE Leave(t, store.blobs, <<>>, [c EXCEPT !.pc = "unlink"])
    /\ UNCHANGED <<core, tport, boot, live, chunked, aux>>

\* for ref in refs: ref.release(), one ref per step: BlobRef.release sets
\* _released and unlinks the segment, unless _released is set already
StoreRelease(t) ==
    /\ store.calls[t].pc = "release"
    /\ LET c == store.calls[t]
       IN  IF c.refs = <<>>
           THEN store' = [store EXCEPT !.calls[t] = Returns(c, "None")]
           ELSE LET name == Head(c.refs)
                IN  store' = [store EXCEPT
                       !.released = @ \cup {name},
                       !.linked = IF name \in store.released THEN @
                                  ELSE @ \ {name},
                       !.unlinks[name] = IF name \in store.released THEN @
                                         ELSE @ + 1,
                       !.calls[t].refs = Tail(@),
                       !.calls[t].unlinked =
                          IF name \in store.released THEN @ ELSE Append(@, name)]
    /\ UNCHANGED <<core, tport, boot, live, chunked, aux>>

\* for name in expired: open the segment by name and unlink it, one name per
\* step, the BlobRef taken out of _blobs being left as it is; then return
\* len(expired)
StoreUnlink(t) ==
    /\ store.calls[t].pc = "unlink"
    /\ LET c == store.calls[t]
           k == Len(c.unlinked) + 1
       IN  IF k > Len(c.expired)
           THEN store' = [store EXCEPT !.calls[t] = Returns(c, Len(c.expired))]
           ELSE store' = [store EXCEPT
                   !.linked = @ \ {c.expired[k]},
                   !.unlinks[c.expired[k]] = @ + 1,
                   !.calls[t].unlinked = Append(@, c.expired[k])]
    /\ UNCHANGED <<core, tport, boot, live, chunked, aux>>

\* time.monotonic() moves on by the TTL
StoreTick ==
    /\ store.ticks < MaxTicks
    /\ store' = [store EXCEPT !.ticks = @ + 1, !.now = @ + BLOB_TTL]
    /\ UNCHANGED <<core, tport, boot, live, chunked, aux>>

\* BlobStore.__init__, as Session.__init__ calls it
InitStore ==
    /\ Constructed
    /\ Quiet
    /\ rv = NoRecv
    /\ store = [blobs |-> <<>>, lock |-> NoThread, now |-> 0, ticks |-> 0,
                ops |-> 0, created |-> <<>>, linked |-> {}, released |-> {},
                removed |-> [n \in 1..MaxBlobs |-> 0],
                unlinks |-> [n \in 1..MaxBlobs |-> 0],
                calls |-> [t \in Threads |-> NoCall]]
    /\ tport = Unused /\ boot = Unused /\ live = Unused /\ chunked = Unused
    /\ AuxUnused

StoreStep(t) ==
    CallStore(t) \/ StoreLock(t) \/ StoreLocked(t) \/ StoreRelease(t)
       \/ StoreUnlink(t)

NextStore == StoreTick \/ \E t \in Threads : StoreStep(t)

SpecBlob == InitStore /\ [][NextStore]_vars

\* every thread that can take a step of a call it has started is scheduled
FairSpecBlob ==
    SpecBlob /\ \A t \in Threads :
                   WF_vars(StoreLock(t) \/ StoreLocked(t) \/ StoreRelease(t)
                              \/ StoreUnlink(t))

(* --------------------- Series._send_chunked ---------------------------- *)

CHUNK_SIZE == 134217728

\* the largest number of chunks a set_data of the run needs
MaxChunkCount == 3

\* a slice that is not clipped to the data
ChunkEndUnclipped(start, len) == start + CHUNK_SIZE

\* end = min(start + chunk_size, len(raw_bytes))
ChunkEnd(start, len) == Min(start + CHUNK_SIZE, len)

\* math.ceil(len(raw_bytes) / chunk_size)
NumChunks(len) == len \div CHUNK_SIZE + (IF len % CHUNK_SIZE = 0 THEN 0 ELSE 1)

\* len(raw_bytes) of the arrays set_data is called with: interleaved float32
\* x, y pairs, 8 bytes a point, from below the ceiling up to MaxChunkCount
\* chunks, around every multiple of the ceiling
DataLens ==
    {(k - 1) * CHUNK_SIZE + d :
        k \in 1..MaxChunkCount,
        d \in {8, 16, CHUNK_SIZE \div 2, CHUNK_SIZE - 16, CHUNK_SIZE - 8,
               CHUNK_SIZE}}

\* requests another thread of the program makes on the same Session during
\* a run
MaxOtherRequests == 2

\* a request of the Session as it reaches the wire: a chunk of the set_data
\* with its index, the one message of an unchunked call ("data"), or the
\* request of another thread ("other")
OnWire(kind, chunk_index) == [kind |-> kind, chunk_index |-> chunk_index]

\* how the _request that carries a payload may end
SendOutcomes == {"ok", "ConnectionError", "BackendError"}

\* the branch a call takes for its data: numpy arrays give raw bytes
\* (_try_interleave_numpy returns a pair), anything else a list of floats
Unchunked(np) == IF np THEN "raw" ELSE "list"

\* Series.set_data(x, y). With numpy arrays: raw_bytes, count =
\* _try_interleave_numpy(x, y), count being the number of floats; above
\* CHUNK_SIZE the data goes to _send_chunked, else into one REQ_SET_DATA.
\* With other inputs: _interleave_xy and one REQ_SET_DATA.
SetData ==
    /\ chunked.pc = "call"
    /\ chunked.op = "set_data"
    /\ \/ /\ chunked.np /\ chunked.len > CHUNK_SIZE
          /\ chunked' = [chunked EXCEPT !.pc = "chunk", !.path = "chunked",
                                        !.num_chunks = NumChunks(chunked.len)]
       \/ /\ ~(chunked.np /\ chunked.len > CHUNK_SIZE)
          /\ \E out \in SendOutcomes :
                chunked' = [chunked EXCEPT !.pc = "done", !.result = out,
                                           !.path = Unchunked(chunked.np),
                                           !.wire = Append(@, OnWire("data", 0)),
                                           !.raw = @ + 1]
    /\ UNCHANGED <<core, tport, boot, live, store, aux>>

\* Series.append(x, y): one REQ_APPEND_DATA, from the raw bytes of numpy
\* arrays or from the interleaved list
AppendData ==
    /\ chunked.pc = "call"
    /\ chunked.op = "append"
    /\ \E out \in SendOutcomes :
          chunked' = [chunked EXCEPT !.pc = "done", !.result = out,
                                     !.path = Unchunked(chunked.np),
                                     !.wire = Append(@, OnWire("data", 0)),
                                     !.raw = @ + 1]
    /\ UNCHANGED <<core, tport, boot, live, store, aux>>

\* one turn of the loop of _send_chunked: the slice, its float count, the
\* payload with its chunk fields, and the _request that sends it
SendChunk ==
    /\ chunked.pc = "chunk"
    /\ LET i == Len(chunked.sent)
           start == i * CHUNK_SIZE
           end == ChunkEnd(start, chunked.len)
           payload == [chunk_index |-> i, chunk_count |-> chunked.num_chunks,
                       total_count |-> chunked.total_count,
                       start |-> start, end |-> end,
                       count |-> (end - start) \div 4]
       IN  \E out \in SendOutcomes :
              chunked' =
                 IF out # "ok"
                 THEN [chunked EXCEPT !.pc = "done", !.result = out,
                                      !.wire = Append(@, OnWire("chunk", i)),
                                      !.sent = Append(@, payload)]
                 ELSE IF i + 1 < chunked.num_chunks
                 THEN [chunked EXCEPT !.wire = Append(@, OnWire("chunk", i)),
                                      !.sent = Append(@, payload)]
                 ELSE [chunked EXCEPT !.pc = "done", !.result = "ok",
                                      !.wire = Append(@, OnWire("chunk", i)),
                                      !.sent = Append(@, payload)]
    /\ UNCHANGED <<core, tport, boot, live, store, aux>>

\* Session._request called by another thread (a live callback, say): it
\* takes Session._lock, which _send_chunked holds only inside each of its
\* own _request calls, so it runs whenever none of those is under way
OtherRequest ==
    /\ Len(SelectSeq(chunked.wire, LAMBDA e : e.kind = "other"))
          < MaxOtherRequests
    /\ chunked' = [chunked EXCEPT !.wire = Append(@, OnWire("other", 0))]
    /\ UNCHANGED <<core, tport, boot, live, store, aux>>

\* the data operations of a Series
SeriesOps == {"set_data", "append"}

\* set_data or append is called with numpy arrays (np) or with lists, the
\* data of one of the lengths as interleaved 4-byte floats
InitChunk ==
    /\ Constructed
    /\ Quiet
    /\ rv = NoRecv
    /\ chunked \in {[pc |-> "call", op |-> o, np |-> b, len |-> n,
                     total_count |-> n \div 4, path |-> "pending",
                     num_chunks |-> 0, sent |-> <<>>, wire |-> <<>>,
                     raw |-> 0,
                     result |-> "pending"] :
                       o \in SeriesOps, b \in BOOLEAN, n \in DataLens}
    /\ tport = Unused /\ boot = Unused /\ live = Unused /\ store = Unused
    /\ AuxUnused

NextChunk == SetData \/ AppendData \/ SendChunk \/ OtherRequest

SpecChunk == InitChunk /\ [][NextChunk]_vars

(* ------------- _handle_event, BackendAnimator, close ------------------- *)

\* what the specifications of the sections above follow, and what the
\* specification of this section leaves alone
old == <<core, tport, boot, live, store, chunked>>
OldUnused ==
    /\ tport = Unused /\ boot = Unused /\ live = Unused /\ store = Unused
    /\ chunked = Unused
exceptDisp == <<old, pacer, rc, loop, codec, rq>>
exceptPacer == <<old, disp, rc, loop, codec, rq>>
exceptRc == <<old, disp, pacer, loop, codec, rq>>
exceptLoop == <<old, disp, pacer, rc, codec, rq>>
exceptCodec == <<old, disp, pacer, rc, loop, rq>>
exceptRq == <<old, disp, pacer, rc, loop, codec>>

\* calls made on the Session and its animators in a run
MaxEvOps == 3

\* the BackendAnimator objects of the program, the figure ids the backend
\* has handed out, and the ids an event can name (one of them unknown here)
AnimIds == {1, 2}
FigureIds == {1, 2}
EventFigIds == {1, 2, 3}

\* the TLV fields of an event's payload: TAG_FIGURE_ID, TAG_F1, TAG_F2,
\* TAG_F3 and TAG_BLOB_SHM (0: the empty string)
Payload(figure_id, f1, f2, f3, shm) ==
    [figure_id |-> figure_id, f1 |-> f1, f2 |-> f2, f3 |-> f3, shm |-> shm]

\* the frames _handle_event is called with: a window closed, a tick (frame
\* 7 at t = 2 with dt = 1), a blob release, and a frame of another type
EventFrames ==
    {[type |-> "EVT_WINDOW_CLOSED", payload |-> Payload(f, 0, 0, 0, 0)] :
        f \in EventFigIds}
    \cup {[type |-> "ANIM_TICK", payload |-> Payload(f, 7, 2, 1, 0)] :
             f \in EventFigIds}
    \cup {[type |-> "BLOB_RELEASE", payload |-> Payload(0, 0, 0, 0, n)] :
             n \in {0, 1}}
    \cup {[type |-> "RESP_OK", payload |-> Payload(0, 0, 0, 0, 0)]}

\* codec.decode_anim_tick: figure_id from TAG_FIGURE_ID, frame_num from
\* TAG_F1, t from TAG_F2, dt from TAG_F3
decode_anim_tick(data) ==
    [figure_id |-> data.figure_id, frame_num |-> data.f1, t |-> data.f2,
     dt |-> data.f3]

\* a search that stops at the first listener whatever its figure
FirstListener(q, anims, figure_id) == IF q = <<>> THEN 0 ELSE 1

\* for anim in self._animators: if anim._figure_id == tick["figure_id"]:
\* ...; break -- the position of the animator that gets the tick, 0 if none
FirstMatch(q, anims, figure_id) ==
    LET hits == {i \in 1..Len(q) : anims[q[i]].figure_id = figure_id}
    IN  IF hits = {} THEN 0 ELSE CHOOSE i \in hits : \A j \in hits : i <= j

\* a loop that clears the flag of every figure
AllHidden(figs, figure_id) ==
    [i \in 1..Len(figs) |-> [figs[i] EXCEPT !.visible = FALSE]]

\* for fig in self._figures: if fig._id == figure_id: fig._visible = False;
\* break
Hidden(figs, figure_id) ==
    LET hits == {i \in 1..Len(figs) : figs[i].id = figure_id}
    IN  IF hits = {} THEN figs
        ELSE LET k == CHOOSE i \in hits : \A j \in hits : i <= j
             IN  [figs EXCEPT ![k].visible = FALSE]

\* Session._register_animator
Registered(q, a) == IF a \in Names(q) THEN q ELSE Append(q, a)

\* an unregistration that leaves the list as it is
KeptRegistered(q, a) == q

\* Session._unregister_animator: list.remove takes the first occurrence out
Unregistered(q, a) ==
    LET hits == {i \in 1..Len(q) : q[i] = a}
    IN  IF hits = {} THEN q
        ELSE LET k == CHOOSE i \in hits : \A j \in hits : i <= j
             IN  SubSeq(q, 1, k - 1) \o SubSeq(q, k + 1, Len(q))

\* what the last call did: the operation, its subject, the Session's lists
\* before it, the requests it sent, the handle_tick calls and the callbacks
\* it made, and how it ended
Did(op, who, msg, sent, ticked, calls, res) ==
    [op |-> op, who |-> who, msg |-> msg, figures |-> disp.figures,
     animators |-> disp.animators, anims |-> disp.anims, blobs |-> disp.blobs,
     open |-> disp.open, closed |-> disp.closed,
     sent |-> sent, ticked |-> ticked, calls |-> calls, res |-> res]

\* the figures for which a window-closed event has been dispatched since
\* the last start of their show(): f joins them
ClosedNow(since, figure_id) ==
    [f \in FigureIds |-> since[f] \/ f = figure_id]

\* _handle_event(msg): the whole handler, the callback of the animator
\* included
Dispatch ==
    /\ disp.n < MaxEvOps
    /\ \E msg \in EventFrames :
          LET tick == decode_anim_tick(msg.payload)
              k == FirstMatch(disp.animators, disp.anims, tick.figure_id)
              a == IF k = 0 THEN 0 ELSE disp.animators[k]
              ticked == IF msg.type = "ANIM_TICK" /\ k # 0 THEN <<a>> ELSE <<>>
              calls == IF ticked # <<>> /\ disp.anims[a].on_tick
                       THEN <<[anim |-> a, t |-> tick.t, dt |-> tick.dt,
                               frame_num |-> tick.frame_num]>>
                       ELSE <<>>
          IN  disp' = [disp EXCEPT
                 !.n = @ + 1,
                 !.figures = IF msg.type = "EVT_WINDOW_CLOSED"
                             THEN Hidden(@, msg.payload.figure_id) ELSE @,
                 !.blobs = IF msg.type = "BLOB_RELEASE" /\ msg.payload.shm # 0
                           THEN @ \ {msg.payload.shm} ELSE @,
                 !.closed_since = IF msg.type = "EVT_WINDOW_CLOSED"
                                  THEN ClosedNow(@, msg.payload.figure_id)
                                  ELSE @,
                 !.last = Did("handle_event", 0, msg, <<>>, ticked, calls,
                              "None")]
    /\ UNCHANGED exceptDisp

\* BackendAnimator.start() up to the send of its _request: nothing when
\* already running, ConnectionError from _request when not connected
StartCall(a) ==
    /\ disp.n < MaxEvOps
    /\ disp.call[a] = "none"
    /\ LET req == [type |-> "REQ_ANIM_START",
                   figure_id |-> disp.anims[a].figure_id]
       IN  disp' =
             IF disp.anims[a].running
             THEN [disp EXCEPT !.n = @ + 1,
                     !.last = Did("start", a, 0, <<>>, <<>>, <<>>, "None")]
             ELSE IF ~disp.open
             THEN [disp EXCEPT !.n = @ + 1,
                     !.last = Did("start", a, 0, <<>>, <<>>, <<>>,
                                  "ConnectionError")]
             ELSE [disp EXCEPT !.n = @ + 1, !.call[a] = "start",
                     !.sent = Append(@, req),
                     !.last = Did("start", a, 0, <<req>>, <<>>, <<>>,
                                  "pending")]
    /\ UNCHANGED exceptDisp

\* the _request of start() returns, and start() sets _running and registers
\* the animator; or it raises
StartReturn(a) ==
    /\ disp.call[a] = "start"
    /\ \E out \in SendOutcomes :
          disp' =
             IF out = "ok"
             THEN [disp EXCEPT !.call[a] = "none",
                     !.anims[a].running = TRUE,
                     !.animators = Registered(@, a),
                     !.last = Did("start_end", a, 0, <<>>, <<>>, <<>>, "None")]
             ELSE [disp EXCEPT !.call[a] = "none",
                     !.last = Did("start_end", a, 0, <<>>, <<>>, <<>>, out)]
    /\ UNCHANGED exceptDisp

\* BackendAnimator.stop() up to the send of its _request
StopCall(a) ==
    /\ disp.n < MaxEvOps
    /\ disp.call[a] = "none"
    /\ LET req == [type |-> "REQ_ANIM_STOP",
                   figure_id |-> disp.anims[a].figure_id]
       IN  disp' =
             IF ~disp.anims[a].running
             THEN [disp EXCEPT !.n = @ + 1,
                     !.last = Did("stop", a, 0, <<>>, <<>>, <<>>, "None")]
             ELSE IF ~disp.open
             THEN [disp EXCEPT !.n = @ + 1,
                     !.last = Did("stop", a, 0, <<>>, <<>>, <<>>,
                                  "ConnectionError")]
             ELSE [disp EXCEPT !.n = @ + 1, !.call[a] = "stop",
                     !.sent = Append(@, req),
                     !.last = Did("stop", a, 0, <<req>>, <<>>, <<>>,
                                  "pending")]
    /\ UNCHANGED exceptDisp

\* the _request of stop() returns, and stop() clears _running and
\* unregisters the animator; or it raises
StopReturn(a) ==
    /\ disp.call[a] = "stop"
    /\ \E out \in SendOutcomes :
          disp' =
             IF out = "ok"
             THEN [disp EXCEPT !.call[a] = "none",
                     !.anims[a].running = FALSE,
                     !.animators = Unregistered(@, a),
                     !.last = Did("stop_end", a, 0, <<>>, <<>>, <<>>, "None")]
             ELSE [disp EXCEPT !.call[a] = "none",
                     !.last = Did("stop_end", a, 0, <<>>, <<>>, <<>>, out)]
    /\ UNCHANGED exceptDisp

\* Figure.show() up to the send of its _request: ConnectionError from
\* _request when not connected
FigureShowCall(f) ==
    /\ disp.n < MaxEvOps
    /\ disp.showing[f] = "none"
    /\ LET req == [type |-> "REQ_SHOW", figure_id |-> f]
       IN  disp' =
             IF ~disp.open
             THEN [disp EXCEPT !.n = @ + 1,
                     !.last = Did("show", f, 0, <<>>, <<>>, <<>>,
                                  "ConnectionError")]
             ELSE [disp EXCEPT !.n = @ + 1, !.showing[f] = "show",
                     !.closed_since[f] = FALSE,
                     !.sent = Append(@, req),
                     !.last = Did("show", f, 0, <<req>>, <<>>, <<>>,
                                  "pending")]
    /\ UNCHANGED exceptDisp

\* the _request of show() returns, and show() sets _visible; or it raises
FigureShowReturn(f) ==
    /\ disp.showing[f] = "show"
    /\ \E out \in SendOutcomes :
          disp' =
             IF out = "ok"
             THEN [disp EXCEPT !.showing[f] = "none",
                     !.figures[f].visible = TRUE,
                     !.last = Did("show_end", f, 0, <<>>, <<>>, <<>>, "None")]
             ELSE [disp EXCEPT !.showing[f] = "none",
                     !.last = Did("show_end", f, 0, <<>>, <<>>, <<>>, out)]
    /\ UNCHANGED exceptDisp

\* Session.close(): nothing when _closed; else the flag, _running = False
\* for every registered animator, the list cleared, the blob store emptied,
\* REQ_DISCONNECT sent if the transport is open, the transport dropped
SessionClose ==
    /\ disp.n < MaxEvOps
    /\ LET req == [type |-> "REQ_DISCONNECT", figure_id |-> 0]
           sent == IF disp.open THEN <<req>> ELSE <<>>
       IN  disp' =
             IF disp.closed
             THEN [disp EXCEPT !.n = @ + 1,
                     !.last = Did("close", 0, 0, <<>>, <<>>, <<>>, "None")]
             ELSE [disp EXCEPT !.n = @ + 1,
                     !.closed = TRUE,
                     !.anims = [a \in AnimIds |->
                                  IF a \in Names(disp.animators)
                                  THEN [@[a] EXCEPT !.running = FALSE]
                                  ELSE @[a]],
                     !.animators = <<>>,
                     !.blobs = {},
                     !.open = FALSE,
                     !.sent = @ \o sent,
                     !.last = Did("close", 0, 0, sent, <<>>, <<>>, "None")]
    /\ UNCHANGED exceptDisp

\* A connected Session with two figures shown (figure f at position f of the
\* list, no show() under way) and one blob, and two
\* BackendAnimator objects constructed and not started, each on one of the
\* figures (both may be on the same one), each with or without a callback.
InitEvents ==
    /\ Constructed
    /\ Quiet
    /\ rv = NoRecv
    /\ \E fig \in [AnimIds -> FigureIds], cb \in [AnimIds -> BOOLEAN] :
          disp = [pc |-> "ready", n |-> 0,
                  figures |-> [i \in 1..2 |-> [id |-> i, visible |-> TRUE]],
                  anims |-> [a \in AnimIds |->
                               [figure_id |-> fig[a], on_tick |-> cb[a],
                                running |-> FALSE]],
                  animators |-> <<>>, blobs |-> {1}, open |-> TRUE,
                  closed |-> FALSE,
                  call |-> [a \in AnimIds |-> "none"],
                  showing |-> [f \in FigureIds |-> "none"],
                  closed_since |-> [f \in FigureIds |-> FALSE],
                  sent |-> <<>>,
                  last |-> [op |-> "none"]]
    /\ OldUnused
    /\ pacer = Unused /\ rc = Unused /\ loop = Unused /\ codec = Unused
    /\ rq = Unused

NextEvents ==
    \/ Dispatch
    \/ SessionClose
    \/ \E a \in AnimIds : StartCall(a)
    \/ \E a \in AnimIds : StartReturn(a)
    \/ \E a \in AnimIds : StopCall(a)
    \/ \E a \in AnimIds : StopReturn(a)
    \/ \E f \in FigureIds : FigureShowCall(f)
    \/ \E f \in FigureIds : FigureShowReturn(f)

SpecEvents == InitEvents /\ [][NextEvents]_vars

(* ----------------------- FramePacer.pace ------------------------------- *)

\* Time is counted in units of 10 ms.
\* the clock value up to which a run is followed, and the pace() calls in it
MaxTime == 24
MaxPaces == 2

\* min(remaining, 0.05): the poll period of ipc_sleep
PollTimeout == 5
\* min(remaining, 0.01): the sleep when the lock is taken
LockedSleep == 1

\* the frame rates the pacer is constructed with
FpsValues == {10, 20}

\* self._interval = 1.0 / max(fps, 1.0), in units of 10 ms
Interval(fps) == 100 \div (IF fps < 1 THEN 1 ELSE fps)

\* what select() on the transport's descriptor does within the timeout: the
\* time runs out, a frame or the end of the stream becomes readable, or the
\* descriptor is no longer valid (ValueError, OSError)
SelectOutcomes(sock, peer) ==
    IF sock = "closed" THEN {"error"}
    ELSE IF peer = "gone" THEN {"ready"}
    ELSE {"timeout", "ready"}

\* what session._transport.recv() gives under the lock
DrainOutcomes(peer) ==
    IF peer = "gone" THEN {"None", "ConnectionError"}
    ELSE {"frame", "ConnectionError", "ProtocolError"}

\* pace(): now, elapsed, remaining; ipc_sleep(session, remaining) when
\* remaining > 0, which sleeps plainly when the transport is not open
PaceCall ==
    /\ pacer.pc = "idle"
    /\ pacer.n < MaxPaces
    /\ pacer.now + pacer.interval <= MaxTime
    /\ LET elapsed == pacer.now - pacer.last_time
           remaining == pacer.interval - elapsed
           p == [pacer EXCEPT !.n = @ + 1, !.start = pacer.now,
                              !.prev = pacer.last_time, !.drained = 0,
                              !.done = [res |-> "none"]]
       IN  pacer' =
             IF remaining > 0
             THEN [p EXCEPT !.pc = IF pacer.sock = "open" THEN "sleep_loop"
                                   ELSE "plain_sleep",
                            !.deadline = pacer.now + remaining]
             ELSE [p EXCEPT !.pc = "return"]
    /\ UNCHANGED exceptPacer

\* time.sleep(duration) of ipc_sleep
PlainSleep ==
    /\ pacer.pc = "plain_sleep"
    /\ pacer' = [pacer EXCEPT !.pc = "return", !.now = pacer.deadline]
    /\ UNCHANGED exceptPacer

\* one turn of the loop of ipc_sleep
PaceSleep ==
    /\ pacer.pc = "sleep_loop"
    /\ LET remaining == pacer.deadline - pacer.now
           timeout == Min(remaining, PollTimeout)
       IN  IF remaining <= 0
           THEN pacer' = [pacer EXCEPT !.pc = "return"]
           ELSE \E out \in SelectOutcomes(pacer.sock, pacer.peer) :
                   CASE out = "timeout" ->
                          pacer' = [pacer EXCEPT !.now = @ + timeout]
                     [] out = "error" ->
                          pacer' = [pacer EXCEPT !.pc = "return"]
                     [] OTHER ->
                          \/ \* the lock is taken: sleep and go round again
                             pacer' = [pacer EXCEPT
                                !.now = @ + Min(remaining, LockedSleep)]
                          \/ \E msg \in DrainOutcomes(pacer.peer) :
                                pacer' =
                                  CASE msg = "None" ->
                                         [pacer EXCEPT !.pc = "return"]
                                    [] msg = "frame" ->
                                         [pacer EXCEPT !.drained = 1,
                                                       !.now = @ + 1]
                                    [] OTHER ->
                                         [pacer EXCEPT !.pc = "idle",
                                            !.deadline = 0, !.start = 0,
                                            !.prev = 0, !.drained = 0,
                                            !.done = [res |-> msg,
                                                      dt |-> 0,
                                                      prev |-> pacer.prev,
                                                      start |-> pacer.start,
                                                      at |-> pacer.now,
                                                      drained |-> pacer.drained]]
    /\ UNCHANGED exceptPacer

\* now = time.monotonic(); dt = now - self._last_time; self._last_time = now
PaceReturn ==
    /\ pacer.pc = "return"
    /\ pacer' = [pacer EXCEPT
          !.pc = "idle",
          !.last_time = pacer.now,
          !.deadline = 0, !.start = 0, !.prev = 0, !.drained = 0,
          !.done = [res |-> "returned", dt |-> pacer.now - pacer.last_time,
                    prev |-> pacer.prev, start |-> pacer.start,
                    at |-> pacer.now, drained |-> pacer.drained]]
    /\ UNCHANGED exceptPacer

\* the body of the animation loop between two pace() calls takes time
PaceWork ==
    /\ pacer.pc = "idle"
    /\ \E w \in {3, pacer.interval + 2} :
          /\ pacer.now + w <= MaxTime
          /\ pacer' = [pacer EXCEPT !.now = @ + w]
    /\ UNCHANGED exceptPacer

\* the backend closes the connection
PacePeerGone ==
    /\ pacer.peer = "up"
    /\ pacer' = [pacer EXCEPT !.peer = "gone"]
    /\ UNCHANGED exceptPacer

\* the Transport is closed under the pacer: a send that failed on another
\* thread
PaceTransportClosed ==
    /\ pacer.sock = "open"
    /\ pacer' = [pacer EXCEPT !.sock = "closed"]
    /\ UNCHANGED exceptPacer

\* FramePacer(fps) constructed at time 0, the Session connected
InitPacer ==
    /\ Constructed
    /\ Quiet
    /\ rv = NoRecv
    /\ \E fps \in FpsValues :
          pacer = [pc |-> "idle", n |-> 0, now |-> 0, last_time |-> 0,
                   interval |-> Interval(fps), deadline |-> 0, start |-> 0,
                   prev |-> 0, drained |-> 0, sock |-> "open", peer |-> "up",
                   done |-> [res |-> "none"]]
    /\ OldUnused
    /\ disp = Unused /\ rc = Unused /\ loop = Unused /\ codec = Unused
    /\ rq = Unused

NextPacer ==
    \/ PaceCall \/ PlainSleep \/ PaceSleep \/ PaceReturn \/ PaceWork
    \/ PacePeerGone \/ PaceTransportClosed

SpecPacer == InitPacer /\ [][NextPacer]_vars

(* ----------------------- Session.reconnect ----------------------------- *)

\* the session ids reconnect() is called with (0: the default), the ids the
\* backend hands out in a WELCOME, and the tokens ("": none)
TargetIds == {0, 11, 12}
WelcomeIds == {11, 12}
Tokens == {"", "tok"}

\* sid = session_id if session_id != 0 else self._session_id
Sid(target, own) == IF target # 0 THEN target ELSE own

\* codec.encode_req_reconnect: TAG_SESSION_ID always, TAG_SESSION_TOKEN
\* only for a non-empty token
encode_req_reconnect(sid, session_token) ==
    [type |-> "REQ_RECONNECT", TAG_SESSION_ID |-> sid,
     has_token |-> session_token # "", TAG_SESSION_TOKEN |-> session_token]

\* the outcomes of the handshake reconnect() makes when the transport is
\* not open: connect, send HELLO, recv
HandshakeOutcomes == {"WELCOME", "ConnectionError", "ProtocolError"}

\* reconnect(session_id, session_token) up to its _request: the handshake
\* on a new transport when none is open, which may raise
RcCall ==
    /\ rc.pc = "call"
    /\ IF rc.open
       THEN rc' = [rc EXCEPT !.pc = "request"]
       ELSE \E out \in HandshakeOutcomes, w \in WelcomeIds :
               /\ out # "WELCOME" => w = 11
               /\ rc' = IF out = "WELCOME"
                        THEN [rc EXCEPT !.pc = "request", !.open = TRUE,
                                        !.own = w]
                        ELSE [rc EXCEPT !.pc = "done", !.open = out = "ProtocolError",
                                        !.result = out]
    /\ UNCHANGED exceptRc

\* sid, the payload, the _request; self._closed = False when it returns
RcRequest ==
    /\ rc.pc = "request"
    /\ LET sid == Sid(rc.session_id, rc.own)
           payload == encode_req_reconnect(sid, rc.session_token)
       IN  \E out \in SendOutcomes :
              rc' = [rc EXCEPT !.pc = "done", !.sent = <<payload>>,
                               !.result = out,
                               !.closed = IF out = "ok" THEN FALSE ELSE @]
    /\ UNCHANGED exceptRc

\* reconnect(session_id, session_token) is called on a Session that is
\* connected, or closed or disconnected with the session id it had
InitReconnect ==
    /\ Constructed
    /\ Quiet
    /\ rv = NoRecv
    /\ \E id \in TargetIds, tok \in Tokens, own \in WelcomeIds,
          open \in BOOLEAN, cl \in BOOLEAN :
          /\ open => ~cl
          /\ rc = [pc |-> "call", session_id |-> id, session_token |-> tok,
                   own |-> own, open |-> open, closed |-> cl, sent |-> <<>>,
                   result |-> "pending"]
    /\ OldUnused
    /\ disp = Unused /\ pacer = Unused /\ loop = Unused /\ codec = Unused
    /\ rq = Unused

NextReconnect == RcCall \/ RcRequest

SpecReconnect == InitReconnect /\ [][NextReconnect]_vars

(* ------------------- live()._loop and shutdown() ----------------------- *)

\* callback iterations of one thread
MaxTurns == 2

\* t.join(timeout=2.0), in seconds
JoinTimeout == 2

\* the threads live() starts in a run: it is called at most twice
LiveThreads == {1, 2}

\* a loop that goes on whatever the flags say
NeverStopped(set, shutting_down) == FALSE

\* while not stop_event.is_set(): if _state._shutting_down: break
Stopped(set, shutting_down) == set \/ shutting_down

\* the threads of _live_threads that are inside _loop
Alive(q) == {i \in LiveThreads : q.pc[i] \in {"check", "callback", "pace"}}

\* session._live_thread_count += 1 and -= 1 are a load of the attribute, an
\* addition and a store, on threads that share no lock: the count after
\* the store of a thread that had loaded `seen`
Stored(count, seen, by) == seen + by

\* finally: session._live_thread_count -= 1, up to the load of the count
LoopExit(q, i) ==
    [q EXCEPT !.pc[i] = "leaving", !.seen[i] = q.live_thread_count]

\* the store of that decrement; the thread ends
CountStore(i) ==
    /\ loop.pc[i] = "leaving"
    /\ loop' = [loop EXCEPT
                  !.pc[i] = "exited", !.seen[i] = 0,
                  !.live_thread_count = Stored(@, loop.seen[i], -1)]
    /\ UNCHANGED exceptLoop

\* live(callback) up to session._live_thread_count += 1: the stop event
\* appended, the count loaded
Live ==
    /\ loop.sh = "idle"
    /\ loop.caller.pc = "idle"
    /\ Len(loop.threads) < Cardinality(LiveThreads)
    /\ loop' = [loop EXCEPT !.caller = [pc |-> "incrementing",
                                        seen |-> loop.live_thread_count]]
    /\ UNCHANGED exceptLoop

\* the store of that increment, the thread started and appended
LiveStart ==
    /\ loop.caller.pc = "incrementing"
    /\ LET i == Len(loop.threads) + 1
       IN  loop' = [loop EXCEPT
                     !.pc[i] = "check",
                     !.threads = Append(loop.threads, i),
                     !.caller = [pc |-> "idle", seen |-> 0],
                     !.live_thread_count = Stored(@, loop.caller.seen, 1)]
    /\ UNCHANGED exceptLoop

\* stop_live(): every stop event set
StopLive ==
    /\ \E i \in Alive(loop) : ~loop.stop[i]
    /\ loop' = [loop EXCEPT !.stop = [i \in LiveThreads |->
                               loop.stop[i] \/ i \in 1..Len(loop.threads)]]
    /\ UNCHANGED exceptLoop

\* the top of the while loop: leave on the stop event or _shutting_down, on
\* a figure no longer visible or the duration reached, else begin the
\* iteration, the callback
LoopCheck(i) ==
    /\ loop.pc[i] = "check"
    /\ IF Stopped(loop.stop[i], loop.shutting_down)
       THEN loop' = LoopExit(loop, i)
       ELSE \/ loop' = LoopExit(loop, i)
            \/ /\ loop.turns[i] < MaxTurns
               /\ loop' = [loop EXCEPT !.pc[i] = "callback",
                                       !.turns[i] = @ + 1,
                                       !.late[i] = @ \/ loop.stop[i]
                                                     \/ loop.shutting_down]
    /\ UNCHANGED exceptLoop

\* the callback and the auto-append return or raise an Exception, which is
\* logged: t += dt
CallbackEnd(i) ==
    /\ loop.pc[i] = "callback"
    /\ loop' = [loop EXCEPT !.pc[i] = "pace"]
    /\ UNCHANGED exceptLoop

\* pacer.pace(session) returns, or raises out of the loop
PaceEnd(i) ==
    /\ loop.pc[i] = "pace"
    /\ \/ loop' = [loop EXCEPT !.pc[i] = "check"]
       \/ loop' = LoopExit(loop, i)
    /\ UNCHANGED exceptLoop

\* shutdown() up to its first join: _shutting_down, every stop event set
Shutdown ==
    /\ loop.sh = "idle"
    /\ loop.caller.pc = "idle"
    /\ loop' = [loop EXCEPT !.shutting_down = TRUE,
                            !.stop = [i \in LiveThreads |->
                                loop.stop[i] \/ i \in 1..Len(loop.threads)],
                            !.sh = IF loop.threads = <<>> THEN "close"
                                   ELSE "join",
                            !.joining = 1, !.waited = 0]
    /\ UNCHANGED exceptLoop

\* a second goes by inside t.join(timeout=2.0)
JoinTick ==
    /\ loop.sh = "join"
    /\ loop.pc[loop.threads[loop.joining]] # "exited"
    /\ loop.waited < JoinTimeout
    /\ loop' = [loop EXCEPT !.waited = @ + 1]
    /\ UNCHANGED exceptLoop

\* t.join(timeout=2.0) returns: the thread has exited or the time is up
JoinReturn ==
    /\ loop.sh = "join"
    /\ LET i == loop.threads[loop.joining]
       IN  /\ loop.pc[i] = "exited" \/ loop.waited = JoinTimeout
           /\ loop' = [loop EXCEPT !.waits[i] = loop.waited,
                                   !.joining = @ + 1, !.waited = 0,
                                   !.sh = IF loop.joining = Len(loop.threads)
                                          THEN "close" ELSE "join"]
    /\ UNCHANGED exceptLoop

\* the rest of shutdown(): the lists cleared, self._session.close()
ShutdownClose ==
    /\ loop.sh = "close"
    /\ loop' = [loop EXCEPT !.sh = "done", !.threads = <<>>,
                            !.session = "closed", !.left = Alive(loop)]
    /\ UNCHANGED exceptLoop

\* _EasyState with its Session, before any live() call
InitLoop ==
    /\ Constructed
    /\ Quiet
    /\ rv = NoRecv
    /\ loop = [pc |-> [i \in LiveThreads |-> "none"],
               stop |-> [i \in LiveThreads |-> FALSE],
               turns |-> [i \in LiveThreads |-> 0],
               seen |-> [i \in LiveThreads |-> 0],
               caller |-> [pc |-> "idle", seen |-> 0],
               late |-> [i \in LiveThreads |-> FALSE],
               waits |-> [i \in LiveThreads |-> 0],
               threads |-> <<>>, shutting_down |-> FALSE,
               live_thread_count |-> 0, sh |-> "idle", joining |-> 0,
               waited |-> 0, session |-> "open", left |-> {}]
    /\ OldUnused
    /\ disp = Unused /\ pacer = Unused /\ rc = Unused /\ codec = Unused
    /\ rq = Unused

NextLoop ==
    \/ Live
    \/ LiveStart
    \/ \E i \in LiveThreads : CountStore(i)
    \/ StopLive
    \/ \E i \in LiveThreads : LoopCheck(i)
    \/ \E i \in LiveThreads : CallbackEnd(i)
    \/ \E i \in LiveThreads : PaceEnd(i)
    \/ Shutdown
    \/ JoinTick
    \/ JoinReturn
    \/ ShutdownClose

SpecLoop == InitLoop /\ [][NextLoop]_vars

\* a thread at the top of its loop or in pace() goes on (pace() sleeps no
\* longer than the frame interval); shutdown() goes on and the time of a
\* join passes. Nothing is assumed of the callback
FairSpecLoop ==
    /\ SpecLoop
    /\ \A i \in LiveThreads :
          WF_vars(LoopCheck(i)) /\ WF_vars(PaceEnd(i)) /\ WF_vars(CountStore(i))
    /\ WF_vars(JoinTick) /\ WF_vars(JoinReturn) /\ WF_vars(ShutdownClose)

(* ------------------- encode_header, decode_header ---------------------- *)

\* values of the 16-bit type field, of the 32-bit payload_len and of the
\* 64-bit fields: the ends of the range that the arithmetic here holds, and
\* values on both sides of a byte boundary
TypeValues == {1, 255, 65535}
LenValues == {0, 100, 2147483647}
WideValues == {0, 256, 2147483647}
IdValues == {0, 3}

\* lengths below HEADER_SIZE, pairs of first bytes other than MAGIC
ShortLens == {0, 1, 2, 39}
OtherMagics == {BadMagic, <<255, 80>>, <<80, 83>>, <<0, 0>>}

\* hdr = encode_header(msg_type, payload_len, seq, request_id, session_id,
\* window_id)
EncodeHeader ==
    /\ codec.pc = "args"
    /\ LET a == codec.args
       IN  codec' = [codec EXCEPT
                       !.pc = "encoded",
                       !.data = encode_header(a.type, a.payload_len, a.seq,
                                              a.request_id, a.session_id,
                                              a.window_id)]
    /\ UNCHANGED exceptCodec

\* the first n bytes of the header only
CutShort ==
    /\ codec.pc = "encoded"
    /\ \E n \in ShortLens :
          codec' = [codec EXCEPT !.pc = "damaged", !.input = "short",
                                 !.data = SubSeq(codec.data, 1, n)]
    /\ UNCHANGED exceptCodec

\* the header with other bytes in the place of the magic
OverwriteMagic ==
    /\ codec.pc = "encoded"
    /\ \E m \in OtherMagics :
          codec' = [codec EXCEPT !.pc = "damaged", !.input = "magic",
                                 !.data = m \o SubSeq(codec.data, 3,
                                                      Len(codec.data))]
    /\ UNCHANGED exceptCodec

\* decode_header(data)
DecodeHeader ==
    /\ codec.pc \in {"encoded", "damaged"}
    /\ codec' = [codec EXCEPT !.pc = "decoded",
                              !.out = decode_header(codec.data)]
    /\ UNCHANGED exceptCodec

\* the six values encode_header is called with
InitHeader ==
    /\ Constructed
    /\ Quiet
    /\ rv = NoRecv
    /\ \E ty \in TypeValues, pl \in LenValues, sq \in WideValues,
          ri \in IdValues, si \in IdValues, wi \in WideValues :
          codec = [pc |-> "args", input |-> "intact", data |-> <<>>,
                   out |-> NoHeader,
                   args |-> [type |-> ty, payload_len |-> pl, seq |-> sq,
                             request_id |-> ri, session_id |-> si,
                             window_id |-> wi]]
    /\ OldUnused
    /\ disp = Unused /\ pacer = Unused /\ rc = Unused /\ loop = Unused
    /\ rq = Unused

NextHeader == EncodeHeader \/ CutShort \/ OverwriteMagic \/ DecodeHeader

SpecHeader == InitHeader /\ [][NextHeader]_vars

(* ----------------------- PayloadDecoder.next --------------------------- *)

\* the longest buffer, and the byte values in it: as a tag 0x00, 0x01 and
\* 0x7F, none of them a tag of the protocol; in a length 0, 1 and values far
\* beyond any buffer
MaxBytes == 11
ByteValues == {0, 1, 127}

\* a check of the tag byte alone
PrefixPastTag(pos, size) == pos + 1 > size

\* if self._pos + 5 > len(self._data)
PrefixPast(pos, size) == pos + 5 > size

\* self._data[i] as <<byte>>; <<>> for the IndexError past the end
ByteAt(data, i) == IF i < Len(data) THEN <<data[i + 1]>> ELSE <<>>

\* struct.unpack_from("<I", data, offset)[0] as <<value>>; <<>> for the
\* struct.error when fewer than 4 bytes are left
unpack_from_I(data, offset) ==
    IF offset + 4 > Len(data) THEN <<>>
    ELSE <<FromLittleEndian(SubSeq(data, offset + 1, offset + 4))>>

Raises == {"IndexError", "struct.error"}

\* PayloadDecoder.next() in a `while dec.next()` loop, which ends at the
\* first False or exception
DecoderNext ==
    /\ codec.pc = "iterating"
    /\ LET d == codec.data
           tag == ByteAt(d, codec.pos)
           len == unpack_from_I(d, codec.pos + 1)
           val_offset == codec.pos + 5
       IN  codec' =
             IF PrefixPast(codec.pos, Len(d))
             THEN [codec EXCEPT !.pc = "ended", !.ret = "False",
                                !.calls = @ + 1]
             ELSE IF tag = <<>>
             THEN [codec EXCEPT !.pc = "ended", !.ret = "IndexError",
                                !.calls = @ + 1]
             ELSE IF len = <<>>
             THEN [codec EXCEPT !.pc = "ended", !.ret = "struct.error",
                                !.calls = @ + 1, !.tag = tag[1]]
             ELSE IF val_offset + len[1] > Len(d)
             THEN [codec EXCEPT !.pc = "ended", !.ret = "False",
                                !.calls = @ + 1, !.tag = tag[1],
                                !.len = len[1], !.val_offset = val_offset]
             ELSE [codec EXCEPT !.ret = "True", !.calls = @ + 1,
                                !.tag = tag[1], !.len = len[1],
                                !.val_offset = val_offset,
                                !.pos = val_offset + len[1],
                                !.fields = Append(@,
                                    [tag |-> tag[1], val_offset |-> val_offset,
                                     len |-> len[1]])]
    /\ UNCHANGED exceptCodec

\* PayloadDecoder(data) for a byte string of up to MaxBytes bytes
InitDecoder ==
    /\ Constructed
    /\ Quiet
    /\ rv = NoRecv
    /\ \E n \in 0..MaxBytes : \E d \in [1..n -> ByteValues] :
          codec = [pc |-> "iterating", data |-> d, pos |-> 0, tag |-> 0,
                   len |-> 0, val_offset |-> 0, ret |-> "none", calls |-> 0,
                   fields |-> <<>>]
    /\ OldUnused
    /\ disp = Unused /\ pacer = Unused /\ rc = Unused /\ loop = Unused
    /\ rq = Unused

NextDecoder == DecoderNext

SpecDecoder == InitDecoder /\ [][NextDecoder]_vars

(* ------------- Session._request waiting for its response --------------- *)

\* messages that arrive while the _request waits
MaxInbox == 2

\* the id of the request in flight, the first after SetupRequests, and the
\* ids a message may carry in its header and in its payload: none, that
\* one, another
InFlight == NextReqId(Len(SetupRequests))
CarriedIds == {0, InFlight, InFlight + 1}
InboxTypes == {"RESP_ERR", "RESP_OK", "RESP_FIGURE_LIST", "EVT_WINDOW_CLOSED"}
ErrorCodes == {0, 3}

\* a frame with, for a RESP_ERR, the TAG_ERROR_CODE of its payload
Arrivals ==
    {[msg |-> Msg(ty, h, e, 0), code |-> c] :
        ty \in InboxTypes, h \in CarriedIds, e \in CarriedIds,
        c \in ErrorCodes}
    \ {a \in [msg : {Msg(ty, h, e, 0) : ty \in InboxTypes, h \in CarriedIds,
                                        e \in CarriedIds},
              code : ErrorCodes] : a.msg.type # "RESP_ERR" /\ a.code # 0}

\* one turn of the while loop of _request: msg = self._transport.recv(),
\* then the first rule that applies: raise BackendError(code, message),
\* return msg, or self._handle_event(msg)
WaitRecv ==
    /\ rq.pc = "waiting"
    /\ rq.inbox # <<>>
    /\ LET a == Head(rq.inbox)
           rule == Classify(a.msg, rq.req_id)
           q == [rq EXCEPT !.inbox = Tail(@), !.read = Append(@, a)]
       IN  rq' = CASE rule = "BackendError" ->
                        [q EXCEPT !.pc = "raised", !.exc = [code |-> a.code]]
                   [] rule = "return" ->
                        [q EXCEPT !.pc = "returned", !.msg = a.msg]
                   [] OTHER ->
                        [q EXCEPT !.handled = Append(@, a.msg)]
    /\ UNCHANGED exceptRq

\* a _request has sent request InFlight and the peer's next frames are on
\* their way
InitWait ==
    /\ Constructed
    /\ Quiet
    /\ rv = NoRecv
    /\ \E n \in 0..MaxInbox : \E box \in [1..n -> Arrivals] :
          rq = [pc |-> "waiting", req_id |-> InFlight, inbox |-> box,
                read |-> <<>>, handled |-> <<>>, msg |-> NoMsg,
                exc |-> [code |-> 0]]
    /\ OldUnused
    /\ disp = Unused /\ pacer = Unused /\ rc = Unused /\ loop = Unused
    /\ codec = Unused

NextWait == WaitRecv

SpecWait == InitWait /\ [][NextWait]_vars

(* ------------------------- claims on Spec ------------------------------ *)

\* the pcs at which a thread is inside Transport.recv
RecvPcs == {"req_in_recv", "show_in_recv", "sleep_in_recv", "rc_in_recv"}

\* thread t is reading from the open Transport tr
Reading(t, tr) ==
    ~Idle(t) /\ Top(t).pc \in RecvPcs /\ Top(t).tr = tr /\ IsOpen(tr)

\* the next message of the stream the _request on top of t's stack reads
NextMsg(t) == wire[Top(t).tr][1]

\* the _request on top of the stack of t takes, in this step, a message whose
\* header carries its request id
TakesMatching(t) ==
    /\ At(t, "request", "req_in_recv")
    /\ IsOpen(Top(t).tr)
    /\ wire[Top(t).tr] # <<>>
    /\ NextMsg(t).request_id = Top(t).req_id
    /\ frames'[t] # frames[t]

\* m is an error response for request id: RESP_ERR embedding id or 0
ErrorFor(m, id) == m.type = "RESP_ERR" /\ m.rid \in {id, 0}

\* in this step the _request of t returns the message at the head of its
\* stream, having passed every message read before to _handle_event once, in
\* arrival order
ReturnsHead(t) ==
    /\ last'[t].res = "ok"
    /\ last'[t].req_id = Top(t).req_id
    /\ last'[t].msg = NextMsg(t)
    /\ Top(t).handled = Top(t).read

\* C1 as stated: whatever events precede it, when the message whose header
\* request_id equals the id of the in-flight request arrives, _request returns
\* exactly that message, every preceding event having been passed to
\* _handle_event exactly once, in arrival order.
C1_ReturnsMatchingMessage ==
    [][\A t \in Threads : TakesMatching(t) => ReturnsHead(t)]_vars

\* C1 amended: the same for every matching message that is not an error
\* response for the request; for an error response (RESP_ERR embedding the
\* request's id or 0) _request raises BackendError instead, the preceding
\* events still dispatched once each, in arrival order.
C1_ReturnsMatchingResponse ==
    [][\A t \in Threads :
         TakesMatching(t) =>
            IF ErrorFor(NextMsg(t), Top(t).req_id)
            THEN /\ last'[t].res = "BackendError"
                 /\ last'[t].req_id = Top(t).req_id
                 /\ Top(t).handled = Top(t).read
            ELSE ReturnsHead(t)]_vars

\* a _request that has read and dispatched two different events and now finds
\* its response at the head of the stream
C1_TwoEventsThenResponse ==
    \E t \in Threads :
       /\ At(t, "request", "req_in_recv")
       /\ Len(Top(t).handled) = 2
       /\ Top(t).handled = Top(t).read
       /\ Top(t).handled[1] # Top(t).handled[2]
       /\ IsOpen(Top(t).tr)
       /\ wire[Top(t).tr] # <<>>
       /\ NextMsg(t).request_id = Top(t).req_id
       /\ NextMsg(t).type = "RESP_FIGURE_LIST"

\* C2 as stated: at no time are two threads inside Transport.recv on the
\* Session's transport at once.
C2_OneReaderAtATime ==
    \A tr \in Transports : \A t, u \in Threads :
       Reading(t, tr) /\ Reading(u, tr) => t = u

\* C3 as stated: no _request is started from within a dispatch of
\* _handle_event: a frame inside _handle_event has no call above it.
C3_NoRequestInDispatch ==
    \A t \in Threads : \A i \in 1..Len(frames[t]) :
       InDispatch(frames[t][i]) => i = Len(frames[t])

\* C4 as stated: a _request never deadlocks: no thread waits in _request for
\* the lock while holding that lock itself.
C4_NoSelfDeadlock ==
    \A t \in Threads : ~(At(t, "request", "req_lock") /\ lock = t)

\* the ways C5 lets a _request end
RequestEndings == {"ok", "ConnectionError", "ProtocolError", "BackendError"}

\* C5 as stated: a call that went through _request returns a response or
\* raises ConnectionError, ProtocolError or BackendError, nothing else.
C5_RequestEndings ==
    \A t \in Threads : last[t].via => last[t].res \in RequestEndings

\* frame f is at a place where its operation holds the lock: _request from
\* the send to its exit, a drain during its one recv
LockedFrame(f) ==
    \/ f.op = "request" /\ f.pc \in {"req_in_recv", "req_dispatch", "in_cb"}
    \/ f.pc \in {"show_in_recv", "sleep_in_recv"}

\* C6: once an operation that took the lock has ended (a _request returned or
\* raised, the recv of show() or ipc_sleep returned or raised), the thread
\* does not hold the lock: a thread holds it only inside such an operation.
C6_LockReleasedOnExit ==
    \A t \in Threads :
       lock = t => \E i \in 1..Len(frames[t]) : LockedFrame(frames[t][i])

\* a _request has ended in BackendError and a drain of ipc_sleep in
\* ProtocolError, both raised under the lock, and the lock is free
C6_RaisedAndFree ==
    /\ lock = NoThread
    /\ Idle("main") /\ Idle("worker")
    /\ last["main"].op = "request" /\ last["main"].res = "BackendError"
    /\ last["worker"].op = "ipc_sleep" /\ last["worker"].res = "ProtocolError"

\* C7: the request ids put on the wire are strictly increasing, so none is
\* used twice.
C7_RequestIdsIncrease ==
    \A i, j \in 1..Len(wireIds) : i < j => wireIds[i] < wireIds[j]

\* after close() and reconnect(), on the new transport, a request has failed
\* and a later one has been answered with a greater id
C7_AfterFailureAndReconnect ==
    /\ Len(sockOpen) >= 2
    /\ \E t, u \in Threads :
          /\ last[t].res = "BackendError"
          /\ last[u].res = "ok" /\ last[u].via
          /\ last[u].req_id > last[t].req_id
          /\ last[u].req_id = wireIds[Len(wireIds)]

\* C8: the step in which a _request raises BackendError leaves every
\* transport as it was, the one it read from open, and changes neither the
\* Session's transport nor its session id, figures, animators or blob store.
C8_BackendErrorKeepsConnection ==
    [][\A t \in Threads :
         (~Idle(t) /\ last'[t] # last[t] /\ last'[t].res = "BackendError") =>
            /\ sockOpen' = sockOpen
            /\ sockOpen'[Top(t).tr]
            /\ UNCHANGED <<transport, session_id, figures, animators,
                           anim_running, blobs>>]_vars

\* on the first transport, a _request has raised BackendError and a later
\* _request has been sent and answered with its own response
C8_AnsweredAfterBackendError ==
    /\ Len(sockOpen) = 1
    /\ \E t, u \in Threads :
          /\ last[t].res = "BackendError"
          /\ last[u].res = "ok" /\ last[u].via
          /\ last[u].req_id > last[t].req_id
          /\ last[u].msg.request_id = last[u].req_id

\* the frame on top of the stack of t after the step, if any
TopAfter(t) == frames'[t][Len(frames'[t])]

\* C15: ipc_sleep's try-lock never waits; when another thread holds the lock
\* it takes nothing from the stream, leaves the lock alone and goes back to
\* polling; ipc_sleep is inside recv only with the lock held, each read is made
\* by the lock's holder, and the event is dispatched with the lock released.
C15_SleepNeverWaitsForLock ==
    [][\A t \in Threads :
         /\ At(t, "ipc_sleep", "sleep_trylock") => ENABLED SleepTryLock(t)
         /\ (At(t, "ipc_sleep", "sleep_trylock") /\ lock # NoThread
               /\ frames'[t] # frames[t]) =>
               /\ TopAfter(t).pc = "sleep_loop"
               /\ wire' = wire
               /\ lock' = lock
         /\ (frames'[t] # <<>> /\ TopAfter(t).pc = "sleep_in_recv") => lock' = t
         /\ (At(t, "ipc_sleep", "sleep_in_recv") /\ wire' # wire
               /\ frames'[t] # frames[t]) => lock = t
         /\ (frames'[t] # <<>> /\ TopAfter(t).pc = "sleep_dispatch") => lock' # t]_vars

\* ipc_sleep has read one event under the lock and dispatched it, and now
\* finds the socket readable while the main thread holds the lock in _request
C15_PollMeetsHeldLock ==
    /\ At("worker", "ipc_sleep", "sleep_trylock")
    /\ Len(Top("worker").handled) = 1
    /\ lock = "main"
    /\ At("main", "request", "req_in_recv")

\* C26 as stated: when close() returns, the Session holds no transport, no
\* animator is registered or running and the blob store is empty; a close()
\* of a closed Session changes nothing and sends nothing; and a _request on a
\* closed Session, made while no other call is under way, raises
\* ConnectionError.
C26_ClosedSessionHoldsNothing ==
    [][\A t \in Threads :
          /\ (CloseNone(t) \/ (CallClose(t) /\ closed)) =>
                /\ transport' = 0
                /\ animators' = {} /\ anim_running' = {} /\ blobs' = {}
          /\ (CallClose(t) /\ closed) =>
                UNCHANGED <<transport, sockOpen, sess, net, wireIds>>
          /\ (CallRequest(t) /\ closed /\ \A u \in Threads : Idle(u)) =>
                last'[t].res = "ConnectionError"]_vars

(* ----------------------- claims on SpecRecv ---------------------------- *)

\* a recv on a connected Transport has ended
Received == rv.pc = "done" /\ rv.sock

\* the payload_len the stream's header carries, whatever its magic
Announced == FromLittleEndian(SubSeq(rv.hdr, 5, 8))

\* the stream starts with a header that recv accepts
GoodHeader == SubSeq(rv.hdr, 1, 2) = MAGIC /\ Announced <= MAX_PAYLOAD_SIZE

\* recv returns None only when the stream ended cleanly with no header byte
\* read
NoneOnlyAtStart ==
    rv.result = "None" => rv.ending = "eof" /\ rv.avail = 0 /\ rv.pos = 0

\* a stream that ends after 1 to 39 header bytes makes recv raise
\* ConnectionError
PartialHeaderRaises ==
    rv.avail \in 1..(HEADER_SIZE - 1) =>
       rv.result = "ConnectionError" /\ rv.pos = rv.avail

\* recv returns one frame: the payload has exactly payload_len bytes and
\* nothing after the frame has been taken from the socket
OneFrame ==
    /\ rv.result = "frame"
    /\ rv.header = decode_header(rv.hdr)
    /\ rv.payload = Announced
    /\ rv.pos = HEADER_SIZE + Announced

\* C9 as stated: however the stream is split into reads, recv returns None
\* only when the stream ends with no header byte read, raises ConnectionError
\* when it ends after 1 to 39 header bytes or before payload_len payload bytes
\* have been read, and otherwise returns exactly one frame whose payload has
\* payload_len bytes.
C9_RecvOutcomes ==
    Received =>
       /\ NoneOnlyAtStart
       /\ PartialHeaderRaises
       /\ (rv.avail >= HEADER_SIZE /\ rv.avail < HEADER_SIZE + Announced)
             => rv.result = "ConnectionError"
       /\ rv.avail >= HEADER_SIZE + Announced => OneFrame

\* C9 amended: the same for a stream that starts with a header recv accepts
\* (Spectra's magic, payload_len at most the maximum); when the 40 bytes read
\* are no such header, recv raises ProtocolError with no payload byte read.
C9_RecvOutcomesGoodHeader ==
    Received =>
       /\ NoneOnlyAtStart
       /\ PartialHeaderRaises
       /\ (GoodHeader /\ rv.avail >= HEADER_SIZE
             /\ rv.avail < HEADER_SIZE + Announced)
             => rv.result = "ConnectionError"
       /\ (GoodHeader /\ rv.avail >= HEADER_SIZE + Announced) => OneFrame
       /\ (~GoodHeader /\ rv.avail >= HEADER_SIZE)
             => rv.result = "ProtocolError" /\ rv.pos = HEADER_SIZE

\* a frame with a payload of MaxPayload bytes has been returned from a stream
\* that some read delivered in pieces
C9_FrameFromSplitStream ==
    /\ Received
    /\ OneFrame
    /\ rv.payload = MaxPayload
    /\ rv.partial

\* C10: a header whose payload_len is above MAX_PAYLOAD_SIZE is decoded by
\* decode_header, with that payload_len, and makes recv raise ProtocolError
\* with no payload byte read; a payload_len equal to MAX_PAYLOAD_SIZE is
\* accepted, and the frame returned once its payload is there.
C10_OversizeRejectedByRecv ==
    SubSeq(rv.hdr, 1, 2) = MAGIC =>
       /\ Announced > MAX_PAYLOAD_SIZE =>
             /\ decode_header(rv.hdr).valid
             /\ decode_header(rv.hdr).payload_len = Announced
             /\ (Received /\ rv.avail >= HEADER_SIZE) =>
                   rv.result = "ProtocolError" /\ rv.pos = HEADER_SIZE
       /\ (Announced = MAX_PAYLOAD_SIZE /\ Received
             /\ rv.avail >= HEADER_SIZE + Announced) => OneFrame

\* recv has raised ProtocolError, 40 bytes read, on a header that
\* decode_header decodes with a payload_len above the maximum
C10_OversizeRejected ==
    /\ Received
    /\ rv.result = "ProtocolError"
    /\ rv.pos = HEADER_SIZE
    /\ decode_header(rv.hdr).valid
    /\ decode_header(rv.hdr).payload_len = MAX_PAYLOAD_SIZE + 1

(* --------------------- claims on SpecTransport ------------------------- *)

\* C11 as stated: after a send or recv of the Transport has failed with an
\* I/O error, is_open is false, and every later send or recv raises
\* ConnectionError without using the socket.
C11_ClosedAfterIoError ==
    \A i \in 1..Len(tport.log) :
       tport.log[i].io =>
          /\ ~tport.log[i].open
          /\ \A j \in (i + 1)..Len(tport.log) :
                /\ tport.log[j].result = "ConnectionError"
                /\ ~tport.log[j].used

(* ---------------------- claims on SpecConnect -------------------------- *)

\* no transport is open and the Session holds none
NoTransportLeft ==
    transport = 0 /\ \A tr \in 1..Len(sockOpen) : ~sockOpen[tr]

\* C12: a _connect call sends HELLO at most once and reads at most once, and
\* reads only after the HELLO; a call that returns has sent one HELLO, read
\* one reply of type WELCOME and stored the session id it carries; a reply of
\* another type makes it raise ProtocolError, a closed stream ConnectionError;
\* and once it has raised, the transport is closed and the Session holds none.
C12_OneHelloOneReply ==
    /\ boot.hellos <= 1 /\ boot.reads <= 1
    /\ boot.reads = 1 => boot.hellos = 1
    /\ boot.result = "ok" =>
          /\ boot.hellos = 1 /\ boot.reads = 1
          /\ boot.reply = "WELCOME"
          /\ session_id = boot.sid /\ boot.sid # 0
          /\ IsOpen(transport)
    /\ boot.reply = "WELCOME" => boot.result = "ok"
    /\ boot.reply \in HelloReplies \ {"WELCOME"} =>
          boot.pc = "done" \/ (boot.pc = "raised" /\ boot.exc = "ProtocolError")
    /\ (boot.reply \in HelloReplies \ {"WELCOME"} /\ boot.pc = "done") =>
          boot.result = "ProtocolError"
    /\ (boot.reply = "None" /\ boot.pc = "raised") => boot.exc = "ConnectionError"
    /\ (boot.pc = "raised" /\ boot.where = "_connect") => NoTransportLeft

\* the second _connect of a construction has raised ProtocolError on a reply
\* that is no WELCOME, after one HELLO and one read, the first having failed
\* after its connection was made
C12_SecondHandshakeRefused ==
    /\ boot.pc = "raised" /\ boot.where = "_connect"
    /\ boot.attempt = 2
    /\ boot.hellos = 1 /\ boot.reads = 1
    /\ boot.reply = "RESP_ERR" /\ boot.exc = "ProtocolError"
    /\ Len(sockOpen) = 2
    /\ NoTransportLeft

\* C13: construction makes at most 3 attempts with auto_launch and exactly 1
\* without; every attempt that was followed by another failed with a
\* ConnectionError or OSError; a ProtocolError ends construction with that
\* ProtocolError; and when the last attempt allowed has failed like the ones
\* before it, construction raises ConnectionError with no transport open.
C13_StartupAttempts ==
    /\ boot.attempt <= 3
    /\ ~boot.auto_launch => boot.attempt = 1
    /\ Len(boot.failed) = boot.attempt - 1
    /\ \A i \in 1..Len(boot.failed) : boot.failed[i] \in Transient
    /\ (boot.pc = "done" /\ boot.exc = "ProtocolError") =>
          boot.result = "ProtocolError"
    /\ (boot.pc = "done" /\ boot.exc \in Transient) =>
          /\ boot.attempt = (IF boot.auto_launch THEN 3 ELSE 1)
          /\ boot.result = "ConnectionError"
    /\ (boot.pc = "done" /\ boot.result = "ConnectionError") =>
          /\ boot.exc \in Transient
          /\ NoTransportLeft
    /\ (boot.pc = "done" /\ boot.result # "ok") => NoTransportLeft

\* three attempts have failed, one before a connection was made and one in a
\* handshake, and construction has raised ConnectionError
C13_ThreeAttemptsFailed ==
    /\ boot.pc = "done" /\ boot.result = "ConnectionError"
    /\ boot.attempt = 3
    /\ Len(sockOpen) = 2
    /\ boot.reads = 1

(* ------------------------ claims on SpecLive --------------------------- *)

\* C14 as stated: show() never calls Transport.recv at a moment when a live
\* thread is active: every step in which show() goes into recv is taken with
\* _live_thread_count = 0.
C14_ShowReadsOnlyWithoutLive ==
    [][\A t \in Threads :
         (At(t, "show", "show_lock")
            /\ frames'[t] # <<>>
            /\ frames'[t][Len(frames'[t])].pc = "show_in_recv")
         => live_thread_count = 0]_vars

(* ------------------------ claims on SpecBlob --------------------------- *)

\* C16 as stated: no reachable state has a tracked blob older than the TTL.
C16_NoBlobPastTtl ==
    \A name \in Names(store.blobs) :
       store.now - store.created[name] <= BLOB_TTL

\* the names of q other than those in the set gone, in the order of q
Without(q, gone) == SelectSeq(q, LAMBDA n : n \notin gone)

\* C17: cleanup_expired examines every blob tracked when it took the lock and
\* removes a blob exactly when its age is greater than the TTL; when it leaves
\* the lock the other blobs are tracked as before, and it returns the number it
\* removed; a store whose only blob is expired is left empty, with 1 returned.
C17_CleanupExpiredExact ==
    \A t \in Threads :
       LET c == store.calls[t]
           gone == {c.seen[i].name : i \in {j \in 1..Len(c.seen) : c.seen[j].removed}}
       IN  c.op = "cleanup_expired" =>
              /\ \A i \in 1..Len(c.seen) :
                    /\ c.seen[i].name = c.before[i]
                    /\ c.seen[i].removed <=> c.seen[i].age > BLOB_TTL
              /\ Names(c.expired) = gone /\ Len(c.expired) = Cardinality(gone)
              /\ c.pc \in {"unlink", "returned"} =>
                    /\ Len(c.seen) = Len(c.before)
                    /\ c.after = Without(c.before, gone)
              /\ c.pc = "returned" =>
                    /\ c.ret = Cardinality(gone)
                    /\ Names(c.unlinked) = gone
                    /\ (Len(c.before) = 1 /\ c.seen[1].age > BLOB_TTL) =>
                          c.ret = 1 /\ c.after = <<>>

\* cleanup_expired has returned 1 from a store of two blobs: it removed the
\* one older than the TTL and kept the one whose age was the TTL itself
C17_OneExpiredOneKept ==
    \E t \in Threads :
       LET c == store.calls[t]
       IN  /\ c.op = "cleanup_expired" /\ c.pc = "returned"
           /\ Len(c.before) = 2
           /\ c.ret = 1
           /\ \E i \in 1..2 : c.seen[i].age = BLOB_TTL /\ ~c.seen[i].removed
           /\ Len(c.after) = 1

\* C18: release_blob(name) takes name out of the tracked blobs and nothing
\* else, unlinks no other blob, and returns None; for a name that is not
\* tracked (released before, or never created) it leaves the tracked blobs as
\* they are and unlinks nothing.
C18_ReleaseIdempotent ==
    \A t \in Threads :
       LET c == store.calls[t]
       IN  (c.op = "release_blob" /\ c.pc \in {"release", "returned"}) =>
              /\ c.after = Without(c.before, {c.name})
              /\ Names(c.unlinked) \subseteq {c.name}
              /\ c.name \notin Names(c.before) =>
                    /\ c.after = c.before
                    /\ c.refs = <<>> /\ c.unlinked = <<>>
              /\ c.pc = "returned" =>
                    /\ c.ret = "None"
                    /\ c.name \in Names(c.before) => c.unlinked = <<c.name>>

\* blob 1 has been released by name twice, once by each thread: the first
\* call removed and unlinked it, the second found nothing and changed nothing
C18_ReleasedTwice ==
    \E t, u \in Threads :
       LET c == store.calls[t]
           d == store.calls[u]
       IN  /\ t # u
           /\ c.op = "release_blob" /\ c.name = 1 /\ c.pc = "returned"
           /\ c.before = <<1>> /\ c.unlinked = <<1>>
           /\ d.op = "release_blob" /\ d.name = 1 /\ d.pc = "returned"
           /\ d.before = <<>> /\ d.after = <<>> /\ d.unlinked = <<>>
           /\ 1 \notin store.linked

\* no name has been taken out of _blobs twice
RemovedOnce == \A n \in DOMAIN store.removed : store.removed[n] <= 1

\* C19: whatever the interleaving, no blob is taken out of the store by two
\* operations (counted by cleanup_expired and also released by release_blob
\* or cleanup_all), and every call that has started returns: each thread is
\* again and again between calls.
C19_CallsEndBlobsRemovedOnce ==
    /\ []RemovedOnce
    /\ \A t \in Threads : []<>(store.calls[t].pc = "returned")

\* cleanup_expired on one thread has counted blob 1 while release_blob(1) on
\* the other thread waited for the lock, and the release then found nothing
C19_ExpiredBeforeRelease ==
    \E t, u \in Threads :
       LET c == store.calls[t]
           d == store.calls[u]
       IN  /\ c.op = "cleanup_expired" /\ c.pc = "returned" /\ c.expired = <<1>>
           /\ d.op = "release_blob" /\ d.name = 1 /\ d.pc = "returned"
           /\ d.unlinked = <<>>
           /\ store.removed[1] = 1

(* ------------------------ claims on SpecChunk -------------------------- *)

\* the element counts of the chunks in q, added up
RECURSIVE SumCounts(_)
SumCounts(q) == IF q = <<>> THEN 0 ELSE Head(q).count + SumCounts(Tail(q))

\* C20: for data of L > CHUNK_SIZE bytes the requests sent carry the indices
\* 0, 1, 2, ... in order, all the same chunk_count n = ceil(L / CHUNK_SIZE)
\* and the same total_count; each holds at most CHUNK_SIZE bytes, starting
\* where the one before ended, the first at 0; and when _send_chunked returns,
\* n requests have been sent, the last ends at L, and the element counts add
\* up to total_count. (A _request that raises ends the loop after a prefix.)
C20_ChunksCoverData ==
    LET L == chunked.len
        n == chunked.num_chunks
        sent == chunked.sent
    IN  (chunked.path = "chunked" /\ L > CHUNK_SIZE) =>
           /\ n * CHUNK_SIZE >= L /\ (n - 1) * CHUNK_SIZE < L
           /\ Len(sent) <= n
           /\ chunked.raw = 0
           /\ \A k \in 1..Len(sent) :
                 /\ sent[k].chunk_index = k - 1
                 /\ sent[k].chunk_count = n
                 /\ sent[k].total_count = chunked.total_count
                 /\ sent[k].start = (IF k = 1 THEN 0 ELSE sent[k - 1].end)
                 /\ sent[k].end > sent[k].start
                 /\ sent[k].end - sent[k].start <= CHUNK_SIZE
                 /\ sent[k].end <= L
                 /\ sent[k].count * 4 = sent[k].end - sent[k].start
           /\ chunked.result = "ok" =>
                 /\ Len(sent) = n
                 /\ sent[n].end = L
                 /\ SumCounts(sent) = chunked.total_count

\* _send_chunked has returned after sending 16 bytes more than two chunks'
\* worth as three requests, the last holding 4 floats
C20_ThreeChunksSent ==
    /\ chunked.pc = "done" /\ chunked.result = "ok"
    /\ chunked.len = 2 * CHUNK_SIZE + 16
    /\ Len(chunked.sent) = 3
    /\ chunked.sent[3].chunk_index = 2
    /\ chunked.sent[3].count = 4

\* C21 as stated: whichever of set_data and append is called and whatever the
\* input type, data above the ceiling goes out as chunked messages of at most
\* CHUNK_SIZE bytes each and never as one message, and data at or below the
\* ceiling goes out as one message without chunk fields.
C21_ChunkingCoversAllPaths ==
    chunked.pc = "done" =>
       IF chunked.len > CHUNK_SIZE
       THEN /\ chunked.raw = 0
            /\ chunked.sent # <<>>
            /\ \A k \in 1..Len(chunked.sent) :
                  chunked.sent[k].end - chunked.sent[k].start <= CHUNK_SIZE
       ELSE chunked.raw = 1 /\ chunked.sent = <<>>

(* ----------------------- claims on SpecEvents -------------------------- *)

\* C22: the dispatch of an ANIM_TICK for figure f calls handle_tick on
\* exactly one animator when one is registered for f, the first such in the
\* Session's list, and its callback (when it has one) runs once with the t,
\* dt and frame number of the tick; with none registered for f nothing is
\* called; an animator of another figure is never called; and the dispatch
\* changes nothing else of the Session.
C22_TickToOneListener ==
    LET d == disp.last
    IN  (d.op = "handle_event" /\ d.msg.type = "ANIM_TICK") =>
           LET f == d.msg.payload.figure_id
               reg == {i \in 1..Len(d.animators) :
                          d.anims[d.animators[i]].figure_id = f}
           IN  /\ reg = {} => d.ticked = <<>> /\ d.calls = <<>>
               /\ reg # {} =>
                     /\ Len(d.ticked) = 1
                     /\ \E i \in reg : /\ d.ticked[1] = d.animators[i]
                                       /\ \A j \in reg : i <= j
                     /\ d.calls =
                          IF d.anims[d.ticked[1]].on_tick
                          THEN <<[anim |-> d.ticked[1], t |-> 2, dt |-> 1,
                                  frame_num |-> 7]>>
                          ELSE <<>>
               /\ \A i \in 1..Len(d.ticked) : d.anims[d.ticked[i]].figure_id = f
               /\ \A i \in 1..Len(d.calls) : d.anims[d.calls[i].anim].figure_id = f
               /\ disp.animators = d.animators /\ disp.anims = d.anims
               /\ disp.figures = d.figures /\ disp.blobs = d.blobs

\* a tick for figure 1 has reached the callback of animator 1, registered
\* behind animator 2, which is on figure 2 and was not called
C22_TickPastOtherListener ==
    LET d == disp.last
    IN  /\ d.op = "handle_event" /\ d.msg.type = "ANIM_TICK"
        /\ d.msg.payload.figure_id = 1
        /\ d.animators = <<2, 1>>
        /\ d.anims[2].figure_id = 2 /\ d.anims[2].on_tick
        /\ d.calls = <<[anim |-> 1, t |-> 2, dt |-> 1, frame_num |-> 7]>>

\* the requests a call of start() or stop() on an animator sends when it
\* gets as far as its _request
AnimRequest(type, d) ==
    <<[type |-> type, figure_id |-> d.anims[d.who].figure_id]>>

\* the call recorded in d left the animators and their registration alone
AnimatorsAsBefore(d) == disp.anims = d.anims /\ disp.animators = d.animators

C24_WindowClosedHidesOneFigure ==
    LET d == disp.last
    IN  (d.op = "handle_event" /\ d.msg.type = "EVT_WINDOW_CLOSED") =>
           /\ Len(disp.figures) = Len(d.figures)
           /\ \A i \in 1..Len(d.figures) :
                 /\ disp.figures[i].id = d.figures[i].id
                 /\ disp.figures[i].visible =
                       IF d.figures[i].id = d.msg.payload.figure_id THEN FALSE
                       ELSE d.figures[i].visible
           /\ AnimatorsAsBefore(d)
           /\ disp.blobs = d.blobs
           /\ disp.open = d.open /\ disp.closed = d.closed
           /\ d.ticked = <<>> /\ d.calls = <<>> /\ d.sent = <<>>

\* the window of figure 2 was closed while figure 1 is shown and an animator
\* is registered: figure 2 alone is hidden
C24_SecondFigureClosed ==
    LET d == disp.last
    IN  /\ d.op = "handle_event" /\ d.msg.type = "EVT_WINDOW_CLOSED"
        /\ d.msg.payload.figure_id = 2
        /\ d.figures[2].visible
        /\ disp.figures = <<[id |-> 1, visible |-> TRUE],
                            [id |-> 2, visible |-> FALSE]>>
        /\ disp.animators # <<>>
        /\ disp.blobs = {1}

(* ------------------------ claims on SpecPacer -------------------------- *)

\* C25 as stated: when pace() returns, at least one frame interval has passed
\* since the previous pace() returned (or since construction); it returns at
\* once when that was so at the call; and the dt it returns is the time since
\* the previous call.
C25_PaceWaitsOutInterval ==
    LET d == pacer.done
    IN  d.res = "returned" =>
           /\ d.at - d.prev >= pacer.interval
           /\ d.start - d.prev >= pacer.interval => d.at = d.start
           /\ d.dt = d.at - d.prev

(* ---------------------- claims on SpecReconnect ------------------------ *)

\* C27 as stated: the REQ_RECONNECT that reconnect(session_id) sends carries
\* session_id itself: 0 when called with 0, the given id otherwise.
C27_ReconnectCarriesTarget ==
    \A i \in 1..Len(rc.sent) : rc.sent[i].TAG_SESSION_ID = rc.session_id

(* ----------------------- claims on FairSpecLoop ------------------------ *)

\* C28: a live thread begins no callback iteration with its stop flag set
\* (by stop_live or shutdown), and with the flag set it exits as soon as it
\* is out of the callback of its current iteration, by way of the finally
\* block, which stores the live-thread count it loaded less one.
\* shutdown() waits no longer than the join timeout for a thread and then
\* closes the session, whether the threads have exited or not.
C28_StopFlagEndsLoopAndShutdownGoesOn ==
    /\ [](\A i \in LiveThreads : ~loop.late[i])
    /\ [][\A i \in LiveThreads :
             (loop.pc[i] # "exited" /\ loop'.pc[i] = "exited") =>
                 loop'.live_thread_count = loop.seen[i] - 1]_vars
    /\ [](loop.waited <= JoinTimeout
          /\ \A i \in LiveThreads : loop.waits[i] <= JoinTimeout)
    /\ \A i \in LiveThreads :
          (loop.stop[i] /\ loop.pc[i] \in {"check", "pace"})
             ~> (loop.pc[i] = "exited")
    /\ (loop.sh = "join") ~> (loop.session = "closed")

\* shutdown() has closed the session after a full join timeout on a thread
\* that is still in its callback, another thread having left on its flag
C28_ClosedWhileThreadInCallback ==
    /\ loop.sh = "done" /\ loop.session = "closed"
    /\ \E i \in loop.left : loop.pc[i] = "callback" /\ loop.waits[i] = JoinTimeout
    /\ \E j \in LiveThreads : loop.pc[j] = "exited" /\ loop.stop[j]
                                 /\ loop.turns[j] > 0

(* ------------------------ claims on SpecHeader ------------------------- *)

\* C29: encode_header gives 40 bytes from which decode_header returns the
\* six values that were encoded; decode_header returns None for fewer than
\* 40 bytes and for first two bytes other than the magic.
C29_HeaderRoundTrip ==
    /\ codec.pc = "encoded" => Len(codec.data) = 40
    /\ (codec.pc = "decoded" /\ codec.input = "intact") =>
          /\ codec.out.valid
          /\ \A f \in DOMAIN codec.args : codec.out[f] = codec.args[f]
    /\ (codec.pc = "decoded" /\ codec.input # "intact") =>
          codec.out = NoHeader

\* a header with the largest values has gone through encode and decode
C29_LargestValuesDecoded ==
    /\ codec.pc = "decoded" /\ codec.input = "intact" /\ codec.out.valid
    /\ codec.out.type = 65535 /\ codec.out.payload_len = 2147483647
    /\ codec.out.seq = 2147483647 /\ codec.out.window_id = 256
    /\ codec.out.request_id = 3

(* ------------------------ claims on SpecDecoder ------------------------ *)

\* the fields of a buffer from byte `from` on, as the format defines them:
\* a tag byte, a 4-byte little-endian length, that many value bytes, one
\* field after the other, up to the first that does not fit
RECURSIVE CompleteFields(_, _)
CompleteFields(d, from) ==
    IF from + 5 > Len(d) THEN <<>>
    ELSE LET l == FromLittleEndian(SubSeq(d, from + 2, from + 5))
         IN  IF from + 5 + l > Len(d) THEN <<>>
             ELSE <<[tag |-> d[from + 1], val_offset |-> from + 5, len |-> l]>>
                  \o CompleteFields(d, from + 5 + l)

\* C30: next() never raises; the fields it has yielded are the first
\* complete fields of the buffer in their order, whatever their tags, each
\* call but the last moving on by at least the 5 bytes of a prefix; it
\* returns False at the end of the buffer or at the first field whose prefix
\* or declared length runs past the end, and by then has yielded every
\* complete field.
C30_NextScansEveryCompleteField ==
    LET d == codec.data
        all == CompleteFields(d, 0)
    IN  /\ codec.ret \notin Raises
        /\ codec.calls = Len(codec.fields)
                            + (IF codec.ret = "False" THEN 1 ELSE 0)
        /\ 5 * Len(codec.fields) <= codec.pos /\ codec.pos <= Len(d)
        /\ Len(codec.fields) <= Len(all)
        /\ codec.fields = SubSeq(all, 1, Len(codec.fields))
        /\ codec.ret = "False" =>
              /\ codec.fields = all
              /\ \/ codec.pos = Len(d)
                 \/ codec.pos + 5 > Len(d)
                 \/ codec.pos + 5
                      + FromLittleEndian(SubSeq(d, codec.pos + 2, codec.pos + 5))
                    > Len(d)

\* two fields with the same unknown tag were yielded and the scan ended at
\* a prefix cut short
C30_TwoFieldsThenCutPrefix ==
    /\ codec.ret = "False" /\ Len(codec.fields) = 2
    /\ codec.fields[1].tag = 127 /\ codec.fields[2].tag = 127
    /\ codec.pos < Len(codec.data)

(* ------------------------- claims on SpecWait -------------------------- *)

\* the message a waiting _request has read last
LastRead == rq.read[Len(rq.read)]

C32_ErrorResponseAlwaysRaises ==
    /\ rq.pc = "returned" => rq.msg.type # "RESP_ERR"
    /\ (/\ rq.read # <<>>
        /\ LastRead.msg.type = "RESP_ERR"
        /\ \/ LastRead.msg.request_id = rq.req_id
           \/ LastRead.msg.rid = rq.req_id) => rq.pc = "raised"

(* ---------------------- further claims on Spec ------------------------- *)

\* C33 as stated: a Session that holds an open transport, no call being under
\* way, has received a WELCOME on that transport and has its session id;
\* after construction, after reconnect(), and after a reconnect() whose
\* handshake failed.
C33_OpenTransportIsWelcomed ==
    ((\A t \in Threads : Idle(t)) /\ IsOpen(transport)) =>
        session_id = WelcomeSid(transport)

\* C34 as stated: while a thread is between the send of its request and the
\* matching receive, no other thread closes the socket it reads from or
\* sends a frame on it; close() in particular waits for the request to end.
C34_NothingBetweenSendAndReceive ==
    [][\A t \in Threads :
          (At(t, "request", "req_in_recv") /\ IsOpen(Top(t).tr)) =>
              /\ sockOpen'[Top(t).tr]
              /\ Len(pending'[Top(t).tr]) <= Len(pending[Top(t).tr])]_vars

\* C35 as stated: a drain (show() or ipc_sleep) that has taken the lock and
\* gone into recv on an open socket finds unread data there: it does not
\* block in recv with the lock held.
C35_DrainFindsItsData ==
    \A t \in Threads :
        (~Idle(t) /\ Top(t).pc \in {"show_in_recv", "sleep_in_recv"}
                  /\ IsOpen(Top(t).tr)) => wire[Top(t).tr] # <<>>

(* ----------------------- claims on FairSpecLive ------------------------ *)

\* the main thread is inside Session.show()
InShow == ~Idle("main") /\ frames["main"][1].op = "show"

\* every figure's window-closed event has been dispatched
C36_ShowReturnsWhenFiguresClosed == (InShow /\ ~AnyVisible) ~> ~InShow

\* the peer has closed the connection the Session holds
C36_ShowReturnsWhenPeerClosed ==
    (InShow /\ transport # 0 /\ peerClosed[transport]) ~> ~InShow

\* C36 as stated: show() returns in the end once the window-closed event of
\* every visible figure has been dispatched, and once the peer has closed
\* the connection, with live threads active or not.
C36_ShowEventuallyReturns ==
    C36_ShowReturnsWhenFiguresClosed /\ C36_ShowReturnsWhenPeerClosed

(* ------------------------- claims on SpecLoop -------------------------- *)

\* C37 as stated: the live-thread count is never negative and, whenever no
\* increment or decrement is under way, it is the number of live threads
\* started that have not left their loop: 0 once all have exited.
C37_CountIsThreadsInLoop ==
    /\ loop.live_thread_count >= 0
    /\ (loop.caller.pc = "idle" /\ \A i \in LiveThreads : loop.pc[i] # "leaving")
          => loop.live_thread_count = Cardinality(Alive(loop))

(* ----------------- further claims on SpecEvents ------------------------ *)

\* C38: a figure for which an EVT_WINDOW_CLOSED has been dispatched is not
\* visible, and stays so, until a show() of it that started after the event
\* returns from its request: an event dispatched while the request of a
\* show() is in flight is not overwritten when that show() completes.
C38_ClosedStaysClosed ==
    \A f \in FigureIds : disp.closed_since[f] => ~disp.figures[f].visible

(* ----------------- further claims on SpecChunk ------------------------- *)

\* the chunks among the requests in w, in the order they reached the wire
ChunksOn(w) == SelectSeq(w, LAMBDA e : e.kind = "chunk")

\* C39: the chunk messages of a chunked set_data reach the wire as chunk 0,
\* 1, 2, ... in order with no other request of the same Session between two
\* of them, whatever the other threads do; and once the _request of a chunk
\* has raised, no further chunk is sent.
C39_ChunksBackToBack ==
    /\ [](LET w == chunked.wire
          IN  /\ \A k \in 1..Len(ChunksOn(w)) :
                    ChunksOn(w)[k].chunk_index = k - 1
              /\ \A j, k \in 1..Len(w) :
                    (j < k /\ w[j].kind = "chunk" /\ w[k].kind = "chunk") =>
                       \A m \in j..k : w[m].kind = "chunk")
    /\ [][chunked.result \in {"ConnectionError", "BackendError"} =>
             chunked'.sent = chunked.sent]_vars

(* ------------------ further claims on SpecBlob ------------------------- *)

\* C40: between the calls on the store, every BlobRef that has been taken out
\* of the tracked blobs (by release_blob, cleanup_expired or cleanup_all) is
\* in the released state, and its segment has been unlinked at most once.
C40_UntrackedIsReleased ==
    (\A t \in Threads : store.calls[t].pc = "returned") =>
       \A n \in DOMAIN store.removed :
          store.removed[n] >= 1 =>
             n \in store.released /\ store.unlinks[n] <= 1
====
